---- MODULE Spec2Model ----
(***************************************************************************)
(* A model of the CodeForgeX practice-session extension                    *)
(* (src/src/extension.ts, the last activate() of the file, lines 659-2150, *)
(* with src/src/services/runService.ts).                                   *)
(*                                                                         *)
(* Text is a sequence of tokens; a token is an atomic piece of text (a     *)
(* word, a marker such as "Hint:", a comment prefix such as "// ", or the  *)
(* line break NL).  String.includes is containment of a contiguous token   *)
(* sub-sequence, split('\n') cuts at NL.                                   *)
(*                                                                         *)
(* The extension host is single-threaded and cooperative: a handler runs   *)
(* from one await to the next without interruption, so every action of     *)
(* the model is the code between two awaits of one handler.                *)
(***************************************************************************)
EXTENDS Integers, Sequences, FiniteSets, TLC

(***************************************************************************)
(* Bounds of the model.                                                    *)
(***************************************************************************)
\* startPractice commands of one behaviour
MaxStarts == 1
\* other commands of one behaviour that get to an await (palette, menu, status bar)
MaxCommands == 3
\* commands of one behaviour invoked while another handler is in progress
MaxOverlaps == 1
\* change events the human produces in one behaviour
MaxHumanEdits == 2
\* Start Practice invocations of one behaviour of the solo session
MaxSoloStarts == 3
\* seconds the tracker counts in the session specification
MaxSessionSeconds == 1
\* seconds the tracker counts in the tracker specification (past 99 minutes)
MaxSeconds == 6001

(***************************************************************************)
(* Text                                                                    *)
(***************************************************************************)
NL == "\n"

\* null of a `string | null` variable; the empty string is <<>>
Null == <<"<null>">>

\* JavaScript truthiness of a `string | null`
Truthy(s) == s # Null /\ s # <<>>

Min(S) == CHOOSE x \in S : \A y \in S : x <= y

Includes(t, n) ==
    \E i \in 1..(Len(t) - Len(n) + 1) : SubSeq(t, i, i + Len(n) - 1) = n

\* 1-based offset of the first occurrence, 0 when there is none
IndexOf(t, n) ==
    LET hits == {i \in 1..(Len(t) - Len(n) + 1) : SubSeq(t, i, i + Len(n) - 1) = n}
    IN  IF hits = {} THEN 0 ELSE Min(hits)

RECURSIVE Split(_)
Split(t) ==
    LET nls == {i \in 1..Len(t) : t[i] = NL}
    IN  IF nls = {} THEN <<t>>
        ELSE LET i == Min(nls)
             IN  <<SubSeq(t, 1, i - 1)>> \o Split(SubSeq(t, i + 1, Len(t)))

RECURSIVE Join(_)
Join(ls) ==
    IF Len(ls) = 0 THEN <<>>
    ELSE IF Len(ls) = 1 THEN ls[1]
    ELSE ls[1] \o <<NL>> \o Join(Tail(ls))

IsSpace(tok) == tok \in {NL, " "}

\* String.prototype.trim on a token sequence
RECURSIVE TrimLeft(_)
TrimLeft(t) == IF Len(t) > 0 /\ IsSpace(t[1]) THEN TrimLeft(Tail(t)) ELSE t

RECURSIVE TrimRight(_)
TrimRight(t) ==
    IF Len(t) > 0 /\ IsSpace(t[Len(t)]) THEN TrimRight(SubSeq(t, 1, Len(t) - 1)) ELSE t

Trim(t) == TrimLeft(TrimRight(t))

\* the replacement patterns of String.replace: $$ is a dollar sign, $& the
\* match, $` the text before it and $' the text after it
RECURSIVE Expand(_, _, _, _)
Expand(by, match, before, after) ==
    IF Len(by) = 0 THEN <<>>
    ELSE (CASE by[1] = "$$" -> <<"$">>
            [] by[1] = "$&" -> match
            [] by[1] = "$`" -> before
            [] by[1] = "$'" -> after
            [] OTHER -> <<by[1]>>)
         \o Expand(Tail(by), match, before, after)

\* String.replace(needle, by) with a string needle: the first occurrence only
ReplaceFirst(t, n, by) ==
    LET i == IndexOf(t, n)
        before == SubSeq(t, 1, i - 1)
        after == SubSeq(t, i + Len(n), Len(t))
    IN  IF i = 0 THEN t
        ELSE before \o Expand(by, n, before, after) \o after

\* line.split('\n').map(line => prefix + line).join('\n')
RECURSIVE MapPrefix(_, _)
MapPrefix(p, ls) ==
    IF Len(ls) = 0 THEN <<>> ELSE <<<<p>> \o ls[1]>> \o MapPrefix(p, Tail(ls))

PrefixLines(p, t) == Join(MapPrefix(p, Split(t)))

CommentPrefix(lang) == IF lang = "python" THEN "# " ELSE "// "

\* commentPrefix.trim()
CommentChar(lang) == IF lang = "python" THEN "#" ELSE "//"

(***************************************************************************)
(* PracticeTimer                                                           *)
(***************************************************************************)
Digit(d) == <<"0", "1", "2", "3", "4", "5", "6", "7", "8", "9">>[d + 1]

\* `${n}` of a non-negative integer
RECURSIVE NumStr(_)
NumStr(n) == IF n < 10 THEN <<Digit(n)>> ELSE NumStr(n \div 10) \o <<Digit(n % 10)>>

\* n < 10 ? `0${n}` : `${n}`
PadTwo(n) == IF n < 10 THEN <<"0">> \o NumStr(n) ELSE NumStr(n)

FormatTime(seconds) == PadTwo(seconds \div 60) \o <<":">> \o PadTwo(seconds % 60)

ZeroTime == <<"0", "0", ":", "0", "0">>

VARIABLES
    practiceTimer,      \* the PracticeTimer object: [interval, seconds, isRunning]
    liveIntervals,      \* the setInterval handles of the runtime not yet cleared
    statusText,         \* what the onTick callback last wrote to timerStatusBar.text
    finalTime           \* what the latest PracticeTimer call returned (Null: nothing)

timerVars == <<practiceTimer, liveIntervals, statusText, finalTime>>

\* no handle
NoInterval == 0

\* setInterval returns a handle unlike every live one
NewHandle(live) == Min({i \in 1..(Cardinality(live) + 1) : i \notin live})

\* `⏱ ${time}`
StatusOf(time) == <<"timer ">> \o time

\* The timer's world: the object, the runtime's live intervals, the status bar
\* text, and what the latest call returned
World ==
    [obj |-> practiceTimer, live |-> liveIntervals, text |-> statusText,
     ret |-> finalTime]

\* a call that returns nothing
Called(w) == [w EXCEPT !.ret = Null]

StartAlwaysMut(w) ==
    LET h == NewHandle(w.live)
    IN  [Called(w) EXCEPT
            !.obj = [@ EXCEPT !.isRunning = TRUE, !.interval = h],
            !.live = @ \cup {h}]

TimerStart(w) ==
    IF w.obj.isRunning THEN Called(w)
    ELSE LET h == NewHandle(w.live)
         IN  [Called(w) EXCEPT
                 !.obj = [@ EXCEPT !.isRunning = TRUE, !.interval = h],
                 !.live = @ \cup {h}]

PauseZeroMut(w) ==
    IF ~w.obj.isRunning \/ w.obj.interval = NoInterval THEN Called(w)
    ELSE [Called(w) EXCEPT
             !.live = @ \ {w.obj.interval},
             !.obj = [interval |-> NoInterval, seconds |-> 0, isRunning |-> FALSE]]

TimerPause(w) ==
    IF ~w.obj.isRunning \/ w.obj.interval = NoInterval THEN Called(w)
    ELSE [Called(w) EXCEPT
             !.live = @ \ {w.obj.interval},
             !.obj = [@ EXCEPT !.interval = NoInterval, !.isRunning = FALSE]]

TimerResume(w) ==
    IF w.obj.isRunning THEN Called(w)
    ELSE TimerStart(w)

TimerReset(w) ==
    [Called(w) EXCEPT
        !.live = IF w.obj.interval # NoInterval THEN @ \ {w.obj.interval} ELSE @,
        !.obj = [interval |-> NoInterval, seconds |-> 0, isRunning |-> FALSE],
        !.text = StatusOf(ZeroTime)]

StopAfterZeroMut(w) ==
    [TimerReset(w) EXCEPT !.ret = ZeroTime]

TimerStop(w) ==
    [TimerReset(w) EXCEPT !.ret = FormatTime(w.obj.seconds)]

\* the setInterval callback
TimerTick(w) ==
    [Called(w) EXCEPT
        !.obj = [@ EXCEPT !.seconds = @ + 1],
        !.text = StatusOf(FormatTime(w.obj.seconds + 1))]

SetWorld(w) ==
    /\ practiceTimer' = w.obj
    /\ liveIntervals' = w.live
    /\ statusText' = w.text
    /\ finalTime' = w.ret

(***************************************************************************)
(* Session state (module-level variables of extension.ts, lines 674-711)   *)
(***************************************************************************)
VARIABLES
    doc,                        \* editor.document.getText() of the active editor
    languageId,                 \* editor.document.languageId
    storedHint,
    storedSolution,
    storedExplanation,
    isUserWrittenQuestion,
    selectionFileSnapshot,
    selectionExplainedBlocks,
    hasSelectionExplanationFlag,
    hasQuestionFlag,
    solutionVisibleFlag,
    hasExplanationFlag,
    hintVisibleFlag,
    evaluationVisibleFlag,
    ctx,                        \* the host's context keys set by setContext
    timerStarted,
    isExtensionEditing,
    hintsUsed,
    solutionViewed,
    handlers,                   \* the command handlers in progress, one record per slot
    tasks,                      \* suspended continuations of the change listener, in order
    nCommands,                  \* commands invoked so far: [start, other, overlap]
    nHuman                      \* change events the human produced so far

flagVars ==
    <<hasQuestionFlag, solutionVisibleFlag, hasExplanationFlag, hintVisibleFlag,
      evaluationVisibleFlag, ctx>>

storedVars == <<storedHint, storedSolution, storedExplanation, isUserWrittenQuestion>>

selVars == <<selectionFileSnapshot, selectionExplainedBlocks, hasSelectionExplanationFlag>>

trackVars == <<hintsUsed, solutionViewed>>

vars ==
    <<timerVars, doc, languageId, storedVars, selVars, flagVars, timerStarted,
      isExtensionEditing, trackVars, handlers, tasks, nCommands, nHuman>>

ContextKeys ==
    {"hasQuestion", "solutionVisible", "hasExplanation", "hintVisible", "evaluationVisible"}

Languages == {"javascript"}

\* concurrent command handlers the model follows
Slots == {1, 2}

Idle ==
    [cmd |-> "idle", pc |-> "", menu |-> FALSE, res |-> <<>>, stale |-> FALSE,
     typed |-> FALSE, loc |-> <<>>]

Init ==
    /\ practiceTimer = [interval |-> NoInterval, seconds |-> 0, isRunning |-> FALSE]
    /\ liveIntervals = {}
    /\ statusText = StatusOf(ZeroTime)
    /\ finalTime = Null
    /\ doc = <<>>
    /\ languageId \in Languages
    /\ storedHint = Null
    /\ storedSolution = Null
    /\ storedExplanation = Null
    /\ isUserWrittenQuestion = FALSE
    /\ selectionFileSnapshot = Null
    /\ selectionExplainedBlocks = <<>>
    /\ hasSelectionExplanationFlag = FALSE
    /\ hasQuestionFlag = FALSE
    /\ solutionVisibleFlag = FALSE
    /\ hasExplanationFlag = FALSE
    /\ hintVisibleFlag = FALSE
    /\ evaluationVisibleFlag = FALSE
    /\ ctx = [k \in ContextKeys |-> FALSE]
    /\ timerStarted = FALSE
    /\ isExtensionEditing = FALSE
    /\ hintsUsed = 0
    /\ solutionViewed = FALSE
    /\ handlers = [i \in Slots |-> Idle]
    /\ tasks = <<>>
    /\ nCommands = [start |-> 0, other |-> 0, overlap |-> 0]
    /\ nHuman = 0

(***************************************************************************)
(* detectManualQuestion (lines 722-745)                                    *)
(***************************************************************************)
\* tokens that one of the eighteen patterns matches
PatternPhrases == {"write a function", "Given an array", "find the "}

DetectManualQuestion(text) ==
    \/ Includes(text, <<"Question (">>)
    \/ \E i \in 1..Len(text) : text[i] \in PatternPhrases

(***************************************************************************)
(* The change listener (lines 842-919)                                     *)
(***************************************************************************)
\* contentChanges.some(change => change.rangeLength === 0 && change.text.length > 0)
UserTyped(changes) ==
    \E i \in 1..Len(changes) : changes[i].rangeLength = 0 /\ Len(changes[i].text) > 0

\* what the listener reads and writes besides the explanation flag
ObsState ==
    [hq |-> hasQuestionFlag, ts |-> timerStarted, w |-> World,
     selFlag |-> hasSelectionExplanationFlag, selBlocks |-> selectionExplainedBlocks,
     selSnap |-> selectionFileSnapshot, tasks |-> tasks]

GuardBlocksMut == FALSE

\* line 845
GuardBlocks == isExtensionEditing

TimerBlocksMut(o) == o.w.obj.isRunning

\* line 898
TimerBlocks(o) == o.ts

\* a listener whose timer check reads the question flag as it was before the
\* detection
ObserverRestMut(o, d, typed) ==
    LET a == IF /\ o.selFlag
                /\ Len(o.selBlocks) > 0
                /\ ~\E k \in 1..Len(o.selBlocks) : Includes(d, o.selBlocks[k])
             THEN [o EXCEPT !.selFlag = FALSE, !.selBlocks = <<>>, !.selSnap = Null]
             ELSE o
        b == IF ~a.hq /\ DetectManualQuestion(d)
             THEN [a EXCEPT !.hq = TRUE, !.tasks = Append(@, [kind |-> "ctxQ"])]
             ELSE a
    IN  IF TimerBlocks(b) THEN b
        ELSE IF ~a.hq THEN b
        ELSE IF ~typed THEN b
        ELSE [b EXCEPT !.w = TimerStart(b.w), !.ts = TRUE]

\* lines 868-919: the listener from the selection check on, on text d
ObserverRest(o, d, typed) ==
    LET a == IF /\ o.selFlag
                /\ Len(o.selBlocks) > 0
                /\ ~\E k \in 1..Len(o.selBlocks) : Includes(d, o.selBlocks[k])
             THEN [o EXCEPT !.selFlag = FALSE, !.selBlocks = <<>>, !.selSnap = Null]
             ELSE o
        b == IF ~a.hq /\ DetectManualQuestion(d)
             THEN [a EXCEPT !.hq = TRUE, !.tasks = Append(@, [kind |-> "ctxQ"])]
             ELSE a
    IN  IF TimerBlocks(b) THEN b
        ELSE IF ~b.hq THEN b
        ELSE IF ~typed THEN b
        ELSE [b EXCEPT !.w = TimerStart(b.w), !.ts = TRUE]

\* lines 842-866: an event of the active document, its text d
Observer(o, d, typed) ==
    IF GuardBlocks THEN o
    ELSE IF /\ Truthy(storedExplanation)
            /\ Includes(d, storedExplanation) # hasExplanationFlag
         THEN [o EXCEPT !.tasks =
                  Append(@, [kind |-> "obsExpl",
                             value |-> Includes(d, storedExplanation),
                             typed |-> typed])]
         ELSE ObserverRest(o, d, typed)

SetObs(o) ==
    /\ hasQuestionFlag' = o.hq
    /\ timerStarted' = o.ts
    /\ SetWorld(o.w)
    /\ hasSelectionExplanationFlag' = o.selFlag
    /\ selectionExplainedBlocks' = o.selBlocks
    /\ selectionFileSnapshot' = o.selSnap
    /\ tasks' = o.tasks

(***************************************************************************)
(* updateContextFlag, buildAvailableActions, syncFlagsFromFile,            *)
(* detectQuestionInFile, extractUserWrittenQuestion (lines 922-1057)       *)
(***************************************************************************)
Flags ==
    [hasQuestion |-> hasQuestionFlag, solutionVisible |-> solutionVisibleFlag,
     hasExplanation |-> hasExplanationFlag, hintVisible |-> hintVisibleFlag,
     evaluationVisible |-> evaluationVisibleFlag]

\* lines 922-929 after the await: the context key is set, then the variable
UpdateContextFlag(f, key, value) == [f EXCEPT ![key] = value]

SetFlags(f) ==
    /\ hasQuestionFlag' = f.hasQuestion
    /\ solutionVisibleFlag' = f.solutionVisible
    /\ hasExplanationFlag' = f.hasExplanation
    /\ hintVisibleFlag' = f.hintVisible
    /\ evaluationVisibleFlag' = f.evaluationVisible

\* a list that offers the solution whether or not it is shown
BuildAvailableActionsMut(f) ==
    (IF f.hasQuestion
     THEN (IF f.hintVisible THEN <<"Hide Hint">> ELSE <<"Show Hint">>)
          \o <<"Show Solution">>
     ELSE <<>>)
    \o (IF f.solutionVisible
        THEN (IF ~f.hasExplanation THEN <<"Explain Code">> ELSE <<>>)
             \o (IF f.evaluationVisible THEN <<"Remove Evaluation">>
                 ELSE <<"Evaluate Code">>)
        ELSE <<>>)
    \o (IF f.hasExplanation THEN <<"Remove Explanation">> ELSE <<>>)

\* a list that never offers the solution
BuildWithoutSolutionMut(f) ==
    (IF f.hasQuestion /\ ~f.solutionVisible
     THEN (IF f.hintVisible THEN <<"Hide Hint">> ELSE <<"Show Hint">>)
     ELSE <<>>)
    \o (IF f.solutionVisible
        THEN (IF ~f.hasExplanation THEN <<"Explain Code">> ELSE <<>>)
             \o (IF f.evaluationVisible THEN <<"Remove Evaluation">>
                 ELSE <<"Evaluate Code">>)
        ELSE <<>>)
    \o (IF f.hasExplanation THEN <<"Remove Explanation">> ELSE <<>>)

\* lines 933-964
BuildAvailableActions(f) ==
    (IF f.hasQuestion /\ ~f.solutionVisible
     THEN (IF f.hintVisible THEN <<"Hide Hint">> ELSE <<"Show Hint">>)
          \o <<"Show Solution">>
     ELSE <<>>)
    \o (IF f.solutionVisible
        THEN (IF ~f.hasExplanation THEN <<"Explain Code">> ELSE <<>>)
             \o (IF f.evaluationVisible THEN <<"Remove Evaluation">>
                 ELSE <<"Evaluate Code">>)
        ELSE <<>>)
    \o (IF f.hasExplanation THEN <<"Remove Explanation">> ELSE <<>>)

\* a resync that resets on a missing marker alone
SyncResetMut(f, content) ==
    IF f.hasQuestion /\ ~Includes(content, <<"Question (">>)
    THEN [hasQuestion |-> FALSE, solutionVisible |-> FALSE, hasExplanation |-> FALSE,
          hintVisible |-> FALSE, evaluationVisible |-> FALSE]
    ELSE [f EXCEPT
            !.hintVisible = @ /\ Includes(content, <<"Hint:">>),
            !.solutionVisible =
                @ /\ ~(Truthy(storedSolution) /\ ~Includes(content, storedSolution)),
            !.hasExplanation =
                @ /\ ~(Truthy(storedExplanation) /\ ~Includes(content, storedExplanation)),
            !.evaluationVisible = @ /\ Includes(content, <<"Code Evaluation Summary:">>)]

\* a resync that trusts the hint flag
SyncFlagsFromFileMut(f, content) ==
    IF /\ f.hasQuestion
       /\ ~Includes(content, <<"Question (">>)
       /\ ~(isUserWrittenQuestion /\ Len(Trim(content)) > 0)
    THEN [hasQuestion |-> FALSE, solutionVisible |-> FALSE, hasExplanation |-> FALSE,
          hintVisible |-> FALSE, evaluationVisible |-> FALSE]
    ELSE [f EXCEPT
            !.solutionVisible =
                @ /\ ~(Truthy(storedSolution) /\ ~Includes(content, storedSolution)),
            !.hasExplanation =
                @ /\ ~(Truthy(storedExplanation) /\ ~Includes(content, storedExplanation)),
            !.evaluationVisible = @ /\ Includes(content, <<"Code Evaluation Summary:">>)]

\* lines 969-1007
SyncFlagsFromFile(f, content) ==
    IF /\ f.hasQuestion
       /\ ~Includes(content, <<"Question (">>)
       /\ ~(isUserWrittenQuestion /\ Len(Trim(content)) > 0)
    THEN [hasQuestion |-> FALSE, solutionVisible |-> FALSE, hasExplanation |-> FALSE,
          hintVisible |-> FALSE, evaluationVisible |-> FALSE]
    ELSE [f EXCEPT
            !.hintVisible = @ /\ Includes(content, <<"Hint:">>),
            !.solutionVisible =
                @ /\ ~(Truthy(storedSolution) /\ ~Includes(content, storedSolution)),
            !.hasExplanation =
                @ /\ ~(Truthy(storedExplanation) /\ ~Includes(content, storedExplanation)),
            !.evaluationVisible = @ /\ Includes(content, <<"Code Evaluation Summary:">>)]

DetectQuestionInFile == hasQuestionFlag \/ Includes(doc, <<"Question (">>)

\* a line without the white space at its ends; a comment prefix at the end of
\* the line loses its space
LineTrim(l) ==
    LET t == Trim(l)
    IN  IF Len(t) > 0 /\ t[Len(t)] \in {"// ", "# "}
        THEN SubSeq(t, 1, Len(t) - 1) \o <<IF t[Len(t)] = "// " THEN "//" ELSE "#">>
        ELSE t

\* trimmed.startsWith(c) for c the comment character or the comment prefix
StartsWithTok(l, c) ==
    /\ Len(l) > 0
    /\ \/ l[1] = c
       \/ c = "//" /\ l[1] = "// "
       \/ c = "#" /\ l[1] = "# "

\* lines 1034-1051: the comment lines at the top, without their prefix
RECURSIVE QuestionLines(_, _, _)
QuestionLines(ls, c, acc) ==
    IF Len(ls) = 0 THEN acc
    ELSE LET t == LineTrim(ls[1])
         IN  IF t = <<>>
             THEN IF acc = <<>> THEN QuestionLines(Tail(ls), c, acc) ELSE acc
             ELSE IF ~StartsWithTok(t, c) THEN acc
             ELSE LET text == Trim(Tail(t))
                  IN  QuestionLines(Tail(ls), c,
                                    IF Len(text) > 0 THEN Append(acc, text) ELSE acc)

RECURSIVE JoinWith(_, _)
JoinWith(ls, sep) ==
    IF Len(ls) = 0 THEN <<>>
    ELSE IF Len(ls) = 1 THEN ls[1]
    ELSE ls[1] \o <<sep>> \o JoinWith(Tail(ls), sep)

ExtractUserWrittenQuestion(content, lang) ==
    IF hasQuestionFlag THEN Null
    ELSE IF Includes(content, <<"Question (">>) THEN Null
    ELSE LET q == QuestionLines(Split(content), CommentChar(lang), <<>>)
         IN  IF Len(q) = 0 THEN Null ELSE JoinWith(q, " ")

(***************************************************************************)
(* Positions and ranges of the document                                    *)
(***************************************************************************)
\* token offset (0-based) of position (line, col), both 0-based, validated as the
\* editor validates a position: a line past the end is the end of the last line,
\* a column past the end of its line is the end of that line
OffsetAt(d, line, col) ==
    LET ls == Split(d)
        n == Len(ls)
        l == IF line >= n THEN n - 1 ELSE line
        c == IF line >= n \/ col > Len(ls[l + 1]) THEN Len(ls[l + 1]) ELSE col
        before == Join(SubSeq(ls, 1, l))
    IN  (IF l = 0 THEN 0 ELSE Len(before) + 1) + c

\* document.positionAt(offset).line for a 0-based offset
LineAt(d, offset) == Cardinality({i \in 1..Len(d) : i <= offset /\ d[i] = NL})

\* editBuilder.replace(new Range(<a>, <b>), text) on 0-based offsets a <= b
ReplaceOffsets(d, a, b, text) == SubSeq(d, 1, a) \o text \o SubSeq(d, b + 1, Len(d))

\* editBuilder.insert(new Position(document.lineCount, 0), text)
InsertAtEnd(d, text) == d \o text

\* editBuilder.insert(new Position(line, 0), text)
InsertAtLine(d, line, text) ==
    LET a == OffsetAt(d, line, 0) IN ReplaceOffsets(d, a, a, text)

(***************************************************************************)
(* Locating and removing a marker block (lines 1427-1466, 1822-1861)       *)
(***************************************************************************)
StartsWithMarker(l, lang, marker) ==
    LET t == LineTrim(l)
    IN  Len(t) >= 2 /\ t[1] = CommentPrefix(lang) /\ t[2] = marker

BlockStart(ls, lang, marker) ==
    LET hits == {i \in 1..Len(ls) : StartsWithMarker(ls[i], lang, marker)}
    IN  IF hits = {} THEN 0 ELSE Min(hits)

\* a search for the end that leaves the closing blank line in place
RECURSIVE BlockEndMut(_, _, _, _)
BlockEndMut(ls, i, end, c) ==
    IF i > Len(ls) THEN end
    ELSE LET t == LineTrim(ls[i])
         IN  IF t = <<>> THEN i - 1
             ELSE IF StartsWithTok(t, c) THEN BlockEndMut(ls, i + 1, i, c)
             ELSE i - 1

RECURSIVE BlockEnd(_, _, _, _)
BlockEnd(ls, i, end, c) ==
    IF i > Len(ls) THEN end
    ELSE LET t == LineTrim(ls[i])
         IN  IF t = <<>> THEN i
             ELSE IF StartsWithTok(t, c) THEN BlockEnd(ls, i + 1, i, c)
             ELSE i - 1

\* lines.splice(start, end - start + 1); lines.join('\n')
RemoveBlock(text, lang, marker) ==
    LET ls == Split(text)
        st == BlockStart(ls, lang, marker)
        en == BlockEnd(ls, st + 1, st, CommentChar(lang))
    IN  Join(SubSeq(ls, 1, st - 1) \o SubSeq(ls, en + 1, Len(ls)))

HasBlock(text, lang, marker) == BlockStart(Split(text), lang, marker) # 0

(***************************************************************************)
(* Handlers in progress                                                    *)
(***************************************************************************)
\* the program counters at which a handler awaits editor.edit
EditPcs == {"edit", "st_edit", "ev_edit", "ev_sug", "ex_edit", "rx_edit", "xs_edit", "rs_edit"}

InFlight(s) == s.pc \in EditPcs

\* a step to the next await that is no edit
Goto(s, pc, loc) ==
    [s EXCEPT !.pc = pc, !.loc = loc, !.res = <<>>, !.stale = FALSE, !.typed = FALSE]

\* editor.edit(...) issued: the text the edit produces from the document it was
\* built against, and whether its change reads as typing
Issue(s, pc, loc, res, typed) ==
    [s EXCEPT !.pc = pc, !.loc = loc, !.res = res, !.stale = FALSE, !.typed = typed]

\* the picker of startPractice (lines 1303-1331)
MenuActions(f, selFlag, hasSel) ==
    (IF hasSel THEN <<"Explain Selection">> ELSE <<>>)
    \o (IF selFlag THEN <<"Remove Selection Explanation">> ELSE <<>>)
    \o BuildAvailableActions(f)

\* the handler returns: a command run from the picker gives way to the next
\* round of the loop of startPractice, any other handler ends
Finish(s, f, selFlag, hasSel) ==
    IF ~s.menu THEN Idle
    ELSE LET acts == MenuActions(f, selFlag, hasSel)
         IN  IF acts = <<>> THEN Idle
             ELSE [Idle EXCEPT !.cmd = "startPractice", !.pc = "menu", !.loc = acts]

\* whether the editor has a selection when the picker is built
SelChoices(s) == IF s.menu THEN BOOLEAN ELSE {FALSE}

\* an edit applied to the document outdates the edits issued against the old text:
\* the editor refuses them (editor.edit resolves false)
Outdate(s) == IF InFlight(s) THEN [s EXCEPT !.stale = TRUE] ELSE s

Put(i, rec) == handlers' = [handlers EXCEPT ![i] = rec]

PutApplied(i, rec, applied) ==
    handlers' = [j \in Slots |->
                    IF j = i THEN rec
                    ELSE IF applied THEN Outdate(handlers[j]) ELSE handlers[j]]

FirstIdle(i) ==
    /\ handlers[i].cmd = "idle"
    /\ \A j \in Slots : j < i => handlers[j].cmd # "idle"

\* what the handlers leave alone unless they say otherwise
OnlySlot ==
    UNCHANGED <<timerVars, doc, languageId, storedVars, selVars, flagVars,
                timerStarted, trackVars, tasks, nHuman>>

\* the budget counts the commands that get to an await of their own
Overlapping(i) == \E j \in Slots \ {i} : handlers[j].cmd # "idle"

Counted(i) ==
    nCommands' = [nCommands EXCEPT !.other = @ + 1,
                                   !.overlap = IF Overlapping(i) THEN @ + 1 ELSE @]

\* a handler that returns at once: no editor, a precondition not met, a duplicate
ReturnAtOnce(i, m) ==
    /\ \E hasSel \in SelChoices(m) :
          Put(i, Finish(m, Flags, hasSelectionExplanationFlag, hasSel))
    /\ UNCHANGED <<isExtensionEditing, nCommands>>
    /\ OnlySlot

\* the edit of slot i completes: the text after it, whether it was applied, and
\* the listener's state after the change event it raised
EditApplied(i) == ~handlers[i].stale

DocAfter(i) == IF EditApplied(i) THEN handlers[i].res ELSE doc

ObsAfter(i) ==
    IF EditApplied(i) THEN Observer(ObsState, handlers[i].res, handlers[i].typed)
    ELSE ObsState

otherFlagVars ==
    <<solutionVisibleFlag, hasExplanationFlag, hintVisibleFlag, evaluationVisibleFlag, ctx>>

\* the record of a handler that starts: m tells whether the picker of
\* startPractice runs it
New(cmd, m) == [Idle EXCEPT !.cmd = cmd, !.menu = m]

At(i, cmd, pc) == handlers[i].cmd = cmd /\ handlers[i].pc = pc

\* the awaited edit resolves: the document, the change event and the listener
EditDone(i) ==
    /\ doc' = DocAfter(i)
    /\ SetObs(ObsAfter(i))

(***************************************************************************)
(* codeforgex.showHint (lines 1375-1416)                                   *)
(***************************************************************************)
HintContent(lang, hint) ==
    <<NL, CommentPrefix(lang), "Hint:", NL>>
    \o PrefixLines(CommentPrefix(lang), hint) \o <<NL, NL>>

HintDuplicateMut(text) == FALSE

\* line 1385
HintDuplicate(text) == Includes(text, <<"Hint:">>)

BeginShowHint(i, m, ed) ==
    IF ~ed \/ ~Truthy(storedHint) THEN ReturnAtOnce(i, New("showHint", m))
    ELSE IF HintDuplicate(doc) THEN ReturnAtOnce(i, New("showHint", m))
    ELSE /\ isExtensionEditing' = TRUE
         /\ Put(i, Issue(New("showHint", m), "edit", <<>>,
                         InsertAtEnd(doc, HintContent(languageId, storedHint)), TRUE))
         /\ OnlySlot
         /\ Counted(i)

\* a Show Hint that does not count
ShowHintEditedMut(i) ==
    /\ At(i, "showHint", "edit")
    /\ EditDone(i)
    /\ isExtensionEditing' = FALSE
    /\ hintsUsed' = hintsUsed
    /\ PutApplied(i, Goto(handlers[i], "ctx", <<"hintVisible", TRUE>>), EditApplied(i))
    /\ UNCHANGED <<languageId, storedVars, otherFlagVars, solutionViewed, nCommands, nHuman>>

\* lines 1401-1414: the edit resolves, the hint is counted
ShowHintEdited(i) ==
    /\ At(i, "showHint", "edit")
    /\ EditDone(i)
    /\ isExtensionEditing' = FALSE
    /\ hintsUsed' = hintsUsed + 1
    /\ PutApplied(i, Goto(handlers[i], "ctx", <<"hintVisible", TRUE>>), EditApplied(i))
    /\ UNCHANGED <<languageId, storedVars, otherFlagVars, solutionViewed, nCommands, nHuman>>

(***************************************************************************)
(* codeforgex.hideHint, codeforgex.removeHint, codeforgex.removeEvaluation *)
(* (lines 1418-1548, 1813-1877)                                            *)
(***************************************************************************)
\* a removal that does not look for the marker line first
BeginRemoveBlockMut(i, m, ed, cmd, marker) ==
    IF ~ed THEN ReturnAtOnce(i, New(cmd, m))
    ELSE /\ isExtensionEditing' = TRUE
         /\ Put(i, Issue(New(cmd, m), "edit", <<>>,
                         RemoveBlock(doc, languageId, marker), FALSE))
         /\ OnlySlot
         /\ Counted(i)

BeginRemoveBlock(i, m, ed, cmd, marker) ==
    IF ~ed THEN ReturnAtOnce(i, New(cmd, m))
    ELSE IF ~HasBlock(doc, languageId, marker) THEN ReturnAtOnce(i, New(cmd, m))
    ELSE /\ isExtensionEditing' = TRUE
         /\ Put(i, Issue(New(cmd, m), "edit", <<>>,
                         RemoveBlock(doc, languageId, marker), FALSE))
         /\ OnlySlot
         /\ Counted(i)

BeginHideHint(i, m, ed) == BeginRemoveBlock(i, m, ed, "hideHint", "Hint:")

BeginRemoveHint(i, m, ed) == BeginRemoveBlock(i, m, ed, "removeHint", "Hint:")

BeginRemoveEvaluation(i, m, ed) ==
    BeginRemoveBlock(i, m, ed, "removeEvaluation", "Evaluation:")

RemoveBlockEdited(i) ==
    /\ handlers[i].cmd \in {"hideHint", "removeHint", "removeEvaluation"}
    /\ handlers[i].pc = "edit"
    /\ EditDone(i)
    /\ isExtensionEditing' = FALSE
    /\ PutApplied(i,
                  Goto(handlers[i], "ctx",
                       <<IF handlers[i].cmd = "removeEvaluation" THEN "evaluationVisible"
                         ELSE "hintVisible", FALSE>>),
                  EditApplied(i))
    /\ UNCHANGED <<languageId, storedVars, otherFlagVars, trackVars, nCommands, nHuman>>

(***************************************************************************)
(* codeforgex.showSolution (lines 1550-1585)                               *)
(***************************************************************************)
SolutionDuplicateMut(text) == FALSE

\* line 1562
SolutionDuplicate(text) == Includes(text, storedSolution)

BeginShowSolution(i, m, ed) ==
    IF ~ed \/ ~Truthy(storedSolution) THEN ReturnAtOnce(i, New("showSolution", m))
    ELSE IF SolutionDuplicate(doc) THEN ReturnAtOnce(i, New("showSolution", m))
    ELSE /\ isExtensionEditing' = TRUE
         /\ Put(i, Issue(New("showSolution", m), "edit", <<>>,
                         InsertAtEnd(doc, <<NL>> \o storedSolution \o <<NL, NL>>), TRUE))
         /\ OnlySlot
         /\ Counted(i)

ShowSolutionEdited(i) ==
    /\ At(i, "showSolution", "edit")
    /\ EditDone(i)
    /\ isExtensionEditing' = FALSE
    /\ solutionViewed' = TRUE
    /\ PutApplied(i, Goto(handlers[i], "ctx", <<"solutionVisible", TRUE>>), EditApplied(i))
    /\ UNCHANGED <<languageId, storedVars, otherFlagVars, hintsUsed, nCommands, nHuman>>

(***************************************************************************)
(* codeforgex.explainCode (lines 1702-1775)                                *)
(***************************************************************************)
\* one comment line before each line of code
RECURSIVE AnnotateLines(_, _)
AnnotateLines(p, ls) ==
    IF Len(ls) = 0 THEN <<>>
    ELSE <<<<p, "why">>, ls[1]>> \o AnnotateLines(p, Tail(ls))

Annotate(lang, code) == Join(AnnotateLines(CommentPrefix(lang), Split(code)))

\* what the explain collaborator may answer for a piece of code
ExplainResponses(lang, code) == {Annotate(lang, code) \o <<NL>>, <<>>}

BeginExplainCode(i, m, ed) ==
    IF ~ed THEN ReturnAtOnce(i, New("explainCode", m))
    ELSE IF ~Truthy(storedSolution) \/ ~Includes(doc, storedSolution)
    THEN ReturnAtOnce(i, New("explainCode", m))
    ELSE /\ Put(i, Goto(New("explainCode", m), "ex_call", <<>>))
         /\ UNCHANGED isExtensionEditing
         /\ OnlySlot
         /\ Counted(i)

\* lines 1742-1758: the lines the stored solution lies on, as offsets
SafeRange(text, needle) ==
    LET start == IndexOf(text, needle) - 1
        end == start + Len(needle)
    IN  <<OffsetAt(text, LineAt(text, start), 0),
          OffsetAt(text, LineAt(text, end), Len(text))>>

ExplainCodeCalled(i) ==
    /\ At(i, "explainCode", "ex_call")
    /\ \/ \* the collaborator throws, or the solution is no longer in the text
          /\ \E hasSel \in SelChoices(handlers[i]) :
                Put(i, Finish(handlers[i], Flags, hasSelectionExplanationFlag, hasSel))
          /\ UNCHANGED isExtensionEditing
       \/ \E explained \in ExplainResponses(languageId, storedSolution) :
             /\ IndexOf(doc, storedSolution) # 0
             /\ LET r == SafeRange(doc, storedSolution)
                IN  Put(i, Issue(handlers[i], "ex_edit", Trim(explained),
                                 ReplaceOffsets(doc, r[1], r[2], Trim(explained)),
                                 r[1] = r[2] /\ Len(Trim(explained)) > 0))
             /\ isExtensionEditing' = TRUE
    /\ OnlySlot
    /\ UNCHANGED nCommands

ExplainCodeEdited(i) ==
    /\ At(i, "explainCode", "ex_edit")
    /\ EditDone(i)
    /\ isExtensionEditing' = FALSE
    /\ storedExplanation' = handlers[i].loc
    /\ PutApplied(i, Goto(handlers[i], "ctx", <<"hasExplanation", TRUE>>), EditApplied(i))
    /\ UNCHANGED <<languageId, storedHint, storedSolution, isUserWrittenQuestion,
                   otherFlagVars, trackVars, nCommands, nHuman>>

(***************************************************************************)
(* codeforgex.removeExplanation (lines 1777-1811)                          *)
(***************************************************************************)
BeginRemoveExplanation(i, m, ed) ==
    IF ~ed \/ ~Truthy(storedExplanation) THEN ReturnAtOnce(i, New("removeExplanation", m))
    ELSE IF ~(Truthy(storedSolution) /\ Includes(doc, storedExplanation))
    THEN ReturnAtOnce(i, New("removeExplanation", m))
    ELSE /\ isExtensionEditing' = TRUE
         /\ Put(i, Issue(New("removeExplanation", m), "rx_edit", <<>>,
                         ReplaceFirst(doc, storedExplanation, storedSolution), FALSE))
         /\ OnlySlot
         /\ Counted(i)

RemoveExplanationEdited(i) ==
    /\ At(i, "removeExplanation", "rx_edit")
    /\ EditDone(i)
    /\ isExtensionEditing' = FALSE
    /\ storedExplanation' = Null
    /\ PutApplied(i, Goto(handlers[i], "ctx", <<"hasExplanation", FALSE>>), EditApplied(i))
    /\ UNCHANGED <<languageId, storedHint, storedSolution, isUserWrittenQuestion,
                   otherFlagVars, trackVars, nCommands, nHuman>>

(***************************************************************************)
(* The awaits shared by the handlers                                       *)
(***************************************************************************)
\* `await updateContextFlag(key, value)` resolves and the handler returns
ContextUpdated(i) ==
    /\ handlers[i].pc = "ctx"
    /\ LET key == handlers[i].loc[1]
           value == handlers[i].loc[2]
           f == UpdateContextFlag(Flags, key, value)
       IN  /\ SetFlags(f)
           /\ ctx' = [ctx EXCEPT ![key] = value]
           /\ \E hasSel \in SelChoices(handlers[i]) :
                 Put(i, Finish(handlers[i], f, hasSelectionExplanationFlag, hasSel))
    /\ UNCHANGED <<timerVars, doc, languageId, storedVars, selVars, timerStarted,
                   isExtensionEditing, trackVars, tasks, nCommands, nHuman>>

\* the handlers that catch what their awaits throw
Catches(cmd) == cmd \in {"evaluateSolution", "explainCode"}

\* editor.edit rejects (the editor was closed): the catch block of the handler
\* runs, or the handler and the startPractice that awaits it end with the error
EditThrows(i) ==
    /\ InFlight(handlers[i])
    /\ IF Catches(handlers[i].cmd)
       THEN \E hasSel \in SelChoices(handlers[i]) :
               Put(i, Finish(handlers[i], Flags, hasSelectionExplanationFlag, hasSel))
       ELSE Put(i, Idle)
    /\ UNCHANGED isExtensionEditing
    /\ OnlySlot
    /\ UNCHANGED nCommands

(***************************************************************************)
(* codeforgex.run (lines 1884-1928) with runActiveFile (runService.ts)     *)
(***************************************************************************)
BeginRunMut(i) ==
    /\ UNCHANGED isExtensionEditing
    /\ Put(i, Goto(New("run", FALSE), "run", <<>>))
    /\ OnlySlot
    /\ Counted(i)

BeginRun(i) ==
    /\ isExtensionEditing' = TRUE
    /\ Put(i, Goto(New("run", FALSE), "run", <<>>))
    /\ OnlySlot
    /\ Counted(i)

\* runService.ts line 27: document.save() raises a change event without content
\* changes (the dirty state changes)
RunSaves(i) ==
    /\ At(i, "run", "run")
    /\ SetObs(Observer(ObsState, doc, FALSE))
    /\ Put(i, Goto(handlers[i], "run_saved", <<>>))
    /\ UNCHANGED <<doc, languageId, storedVars, otherFlagVars, isExtensionEditing,
                   trackVars, nCommands, nHuman>>

StopOnRunMut(started) == FALSE

\* line 1895
StopOnRun(started) == started

\* a handler that stops the Tracker whatever runActiveFile reports
RunResolvedMut(i, result) ==
    /\ handlers[i].cmd = "run"
    /\ result = "ok" => handlers[i].pc = "run_saved"
    /\ isExtensionEditing' = FALSE
    /\ IF StopOnRun(timerStarted)
       THEN /\ SetWorld(TimerStop(World))
            /\ timerStarted' = FALSE
       ELSE UNCHANGED <<timerVars, timerStarted>>
    /\ Put(i, Idle)
    /\ UNCHANGED <<doc, languageId, storedVars, selVars, flagVars, trackVars, tasks, nCommands, nHuman>>

\* lines 1890-1926: runActiveFile resolves with result.success ("ok") or, without
\* an editor, for an unsupported language or with a launch error, with a failure
\* ("fail")
RunResolved(i, result) ==
    /\ handlers[i].cmd = "run"
    /\ result = "ok" => handlers[i].pc = "run_saved"
    /\ isExtensionEditing' = FALSE
    /\ IF result = "ok" /\ StopOnRun(timerStarted)
       THEN /\ SetWorld(TimerStop(World))
            /\ timerStarted' = FALSE
       ELSE UNCHANGED <<timerVars, timerStarted>>
    /\ Put(i, Idle)
    /\ UNCHANGED <<doc, languageId, storedVars, selVars, flagVars, trackVars, tasks, nCommands, nHuman>>

RunReturned(i) == \E result \in {"ok", "fail"} : RunResolved(i, result)

\* document.save() rejects: the handler ends with the error
RunThrows(i) ==
    /\ At(i, "run", "run")
    /\ Put(i, Idle)
    /\ UNCHANGED isExtensionEditing
    /\ OnlySlot
    /\ UNCHANGED nCommands

(***************************************************************************)
(* codeforgex.timerControls (lines 1059-1091)                              *)
(***************************************************************************)
BeginTimerControls(i) ==
    /\ Put(i, Goto(New("timerControls", FALSE), "tc_pick", <<>>))
    /\ UNCHANGED isExtensionEditing
    /\ OnlySlot
    /\ Counted(i)

TimerControlPicked(i) ==
    /\ At(i, "timerControls", "tc_pick")
    /\ \E action \in {"", "Pause", "Resume", "Reset", "Stop"} :
          CASE action = "" -> UNCHANGED <<timerVars, timerStarted>>
            [] action = "Pause" ->
                 SetWorld(TimerPause(World)) /\ UNCHANGED timerStarted
            [] action = "Resume" ->
                 SetWorld(TimerResume(World)) /\ UNCHANGED timerStarted
            [] action = "Reset" ->
                 SetWorld(TimerReset(World)) /\ timerStarted' = FALSE
            [] action = "Stop" ->
                 SetWorld(TimerStop(World)) /\ timerStarted' = FALSE
    /\ Put(i, Idle)
    /\ UNCHANGED <<doc, languageId, storedVars, selVars, flagVars, isExtensionEditing,
                   trackVars, tasks, nCommands, nHuman>>

(***************************************************************************)
(* The runtime: the interval callback, the suspended listener, the human   *)
(***************************************************************************)
sessionVars ==
    <<doc, languageId, storedVars, selVars, flagVars, timerStarted, isExtensionEditing,
      trackVars, handlers, tasks, nCommands, nHuman>>

\* a live interval fires (lines 2100-2103)
Tick(bound) ==
    /\ liveIntervals # {}
    /\ practiceTimer.seconds < bound
    /\ SetWorld(TimerTick(World))
    /\ UNCHANGED sessionVars

\* the oldest suspended updateContextFlag of the listener resolves
TaskResumes ==
    /\ tasks # <<>>
    /\ LET t == Head(tasks)
           o == [ObsState EXCEPT !.tasks = Tail(tasks)]
       IN  IF t.kind = "ctxQ"
           THEN \* lines 893, 923-924
                /\ ctx' = [ctx EXCEPT !["hasQuestion"] = TRUE]
                /\ SetObs([o EXCEPT !.hq = TRUE])
                /\ UNCHANGED hasExplanationFlag
           ELSE \* lines 864, 923-926, then lines 868-919
                /\ ctx' = [ctx EXCEPT !["hasExplanation"] = t.value]
                /\ hasExplanationFlag' = t.value
                /\ SetObs(ObserverRest(o, doc, t.typed))
    /\ UNCHANGED <<doc, languageId, storedVars, solutionVisibleFlag, hintVisibleFlag,
                   evaluationVisibleFlag, isExtensionEditing, trackVars, handlers, nCommands, nHuman>>

\* what the human may do to the text d: the text after, and the contentChanges
\* of the event
HumanEdits(d, lang) ==
    {[doc |-> d \o <<"x">>,
      changes |-> <<[rangeLength |-> 0, text |-> <<"x">>]>>],
     [doc |-> <<CommentPrefix(lang), "write a function", NL>> \o d,
      changes |-> <<[rangeLength |-> 0,
                     text |-> <<CommentPrefix(lang), "write a function", NL>>]>>],
     [doc |-> d, changes |-> <<>>]}
    \cup (IF Len(d) = 0 THEN {}
          ELSE {[doc |-> <<>>, changes |-> <<[rangeLength |-> Len(d), text |-> <<>>]>>],
                [doc |-> <<"y">>,
                 changes |-> <<[rangeLength |-> Len(d), text |-> <<"y">>]>>],
                [doc |-> <<"y">> \o Tail(d) \o <<"x">>,
                 changes |-> <<[rangeLength |-> 1, text |-> <<"y">>],
                               [rangeLength |-> 0, text |-> <<"x">>]>>]})
    \cup (IF ~HasBlock(d, lang, "Hint:") THEN {}
          ELSE {[doc |-> RemoveBlock(d, lang, "Hint:"),
                 changes |-> <<[rangeLength |-> Len(d) - Len(RemoveBlock(d, lang, "Hint:")),
                                text |-> <<>>]>>]})

\* the human makes the change e of the active document: the listener runs, the
\* edits issued against the old text are outdated
HumanEditOf(e) ==
    /\ doc' = e.doc
    /\ SetObs(Observer(ObsState, e.doc, UserTyped(e.changes)))
    /\ handlers' = [j \in Slots |->
                      IF e.doc # doc THEN Outdate(handlers[j]) ELSE handlers[j]]
    /\ nHuman' = nHuman + 1
    /\ UNCHANGED <<languageId, storedVars, otherFlagVars, isExtensionEditing, trackVars,
                   nCommands>>

HumanEdit ==
    /\ nHuman < MaxHumanEdits
    /\ \E e \in HumanEdits(doc, languageId) : HumanEditOf(e)

(***************************************************************************)
(* codeforgex.startPractice (lines 1094-1373)                              *)
(***************************************************************************)
\* aiService.ts lines 93-107: a failed request is caught and reported as text
ErrorResponse == <<"OpenAI Error: ", "fetch failed">>

\* what generatePracticeQuestion may return (aiService.ts lines 80-91, 93-107)
AiResponses ==
    {<<"[QUESTION]", NL, "q1", NL, "[HINT]", NL, "h1", NL, "[SOLUTION]", NL, "s1", NL, "s2">>,
     ErrorResponse}

Difficulties == {"Medium"}

\* the capture of /<tag>([\s\S]*?)(?=<stops>|$)/, Null without a match; with no
\* stops, of /<tag>([\s\S]*)/
Section(t, tag, stops) ==
    LET i == IndexOf(t, <<tag>>)
        rest == SubSeq(t, i + 1, Len(t))
        ends == {j \in 1..Len(rest) : rest[j] \in stops}
    IN  IF i = 0 THEN Null
        ELSE IF ends = {} THEN rest
        ELSE SubSeq(rest, 1, Min(ends) - 1)

\* match ? match[1].trim() : null
TrimmedOrNull(m) == IF m = Null THEN Null ELSE Trim(m)

ParseHint(ai) == TrimmedOrNull(Section(ai, "[HINT]", {"[SOLUTION]"}))

ParseSolution(ai) == TrimmedOrNull(Section(ai, "[SOLUTION]", {}))

\* lines 1241-1259
FinalContent(lang, difficulty, ai) ==
    LET q == Section(ai, "[QUESTION]", {"[HINT]", "[SOLUTION]"})
    IN  <<CommentPrefix(lang), "Question (", difficulty, ")", NL, NL>>
        \o (IF q = Null THEN <<>>
            ELSE PrefixLines(CommentPrefix(lang), Trim(q)) \o <<NL, NL>>)

\* lines 1292-1331: the flags are re-read from the file and the picker is shown
ToMenu(i, f) ==
    LET g == SyncFlagsFromFile(f, doc)
    IN  /\ SetFlags(g)
        /\ IF ~g.hasQuestion THEN Put(i, Idle)
           ELSE \E hasSel \in BOOLEAN :
                   Put(i, Finish(New("startPractice", TRUE), g,
                                 hasSelectionExplanationFlag, hasSel))

\* a reset that passes over the hint
ResetKeysMut == <<"solutionVisible", "solutionVisible", "hasExplanation", "evaluationVisible">>

\* lines 1174-1177: the keys Start Practice resets before it asks for a topic
ResetKeys == <<"hintVisible", "solutionVisible", "hasExplanation", "evaluationVisible">>

BeginStart(i, ed) ==
    /\ IF ~ed
       THEN Put(i, Idle) /\ UNCHANGED <<flagVars, storedVars, trackVars>>
       ELSE IF DetectQuestionInFile
       THEN ToMenu(i, Flags) /\ UNCHANGED <<ctx, storedVars, trackVars>>
       ELSE IF Truthy(ExtractUserWrittenQuestion(doc, languageId))
       THEN /\ Put(i, Goto(New("startPractice", FALSE), "uq_gen", <<>>))
            /\ UNCHANGED <<flagVars, storedVars, trackVars>>
       ELSE /\ isUserWrittenQuestion' = FALSE
            /\ hintsUsed' = 0
            /\ solutionViewed' = FALSE
            /\ Put(i, Goto(New("startPractice", FALSE), "st_ctx", <<1>>))
            /\ UNCHANGED <<flagVars, storedHint, storedSolution, storedExplanation>>
    /\ nCommands' = IF ~ed THEN nCommands
                     ELSE [nCommands EXCEPT !.start = @ + 1,
                                            !.overlap = IF Overlapping(i) THEN @ + 1 ELSE @]
    /\ UNCHANGED <<timerVars, doc, languageId, selVars, timerStarted, isExtensionEditing,
                   tasks, nHuman>>

\* lines 1174-1177: one updateContextFlag of the four resolves
StartContextReset(i) ==
    /\ At(i, "startPractice", "st_ctx")
    /\ LET k == handlers[i].loc[1]
       IN  /\ SetFlags(UpdateContextFlag(Flags, ResetKeys[k], FALSE))
           /\ ctx' = [ctx EXCEPT ![ResetKeys[k]] = FALSE]
           /\ Put(i, IF k < Len(ResetKeys) THEN Goto(handlers[i], "st_ctx", <<k + 1>>)
                     ELSE Goto(handlers[i], "st_topic", <<>>))
    /\ UNCHANGED <<timerVars, doc, languageId, storedVars, selVars, timerStarted,
                   isExtensionEditing, trackVars, tasks, nCommands, nHuman>>

\* lines 1192-1209: the topic is confirmed, changed, or the prompt is closed
StartTopic(i) ==
    /\ At(i, "startPractice", "st_topic")
    /\ \E decision \in {"", "Continue", "Change Topic"} :
          Put(i, IF decision = "" THEN Idle
                 ELSE IF decision = "Change Topic" THEN Goto(handlers[i], "st_input", <<>>)
                 ELSE Goto(handlers[i], "st_diff", <<>>))
    /\ UNCHANGED isExtensionEditing
    /\ OnlySlot
    /\ UNCHANGED nCommands

StartInput(i) ==
    /\ At(i, "startPractice", "st_input")
    /\ Put(i, Goto(handlers[i], "st_diff", <<>>))
    /\ UNCHANGED isExtensionEditing
    /\ OnlySlot
    /\ UNCHANGED nCommands

\* lines 1211-1216
StartDifficulty(i) ==
    /\ At(i, "startPractice", "st_diff")
    /\ \E difficulty \in {""} \cup Difficulties :
          Put(i, IF difficulty = "" THEN Idle
                 ELSE Goto(handlers[i], "st_gen", <<difficulty>>))
    /\ UNCHANGED isExtensionEditing
    /\ OnlySlot
    /\ UNCHANGED nCommands

\* lines 1236-1239, 1139-1142: generatePracticeQuestion throws
GenerationFails(i) ==
    /\ handlers[i].cmd = "startPractice"
    /\ handlers[i].pc \in {"st_gen", "uq_gen"}
    /\ Put(i, Idle)
    /\ UNCHANGED isExtensionEditing
    /\ OnlySlot
    /\ UNCHANGED nCommands

\* lines 1241-1269
StartGenerated(i) ==
    /\ At(i, "startPractice", "st_gen")
    /\ \E ai \in AiResponses :
          /\ storedHint' = ParseHint(ai)
          /\ storedSolution' = ParseSolution(ai)
          /\ Put(i, Issue(handlers[i], "st_edit", <<>>,
                          FinalContent(languageId, handlers[i].loc[1], ai) \o doc, TRUE))
    /\ isExtensionEditing' = TRUE
    /\ UNCHANGED <<timerVars, doc, languageId, storedExplanation, isUserWrittenQuestion,
                   selVars, flagVars, timerStarted, trackVars, tasks,
                   nCommands, nHuman>>

\* lines 1269-1278: the edit resolves; the configuration update and then
\* updateContextFlag are awaited
StartEdited(i) ==
    /\ At(i, "startPractice", "st_edit")
    /\ EditDone(i)
    /\ isExtensionEditing' = FALSE
    /\ PutApplied(i, Goto(handlers[i], "st_cq", <<>>), EditApplied(i))
    /\ UNCHANGED <<languageId, storedVars, otherFlagVars, trackVars, nCommands, nHuman>>

\* lines 1278-1279
StartQuestionSet(i) ==
    /\ At(i, "startPractice", "st_cq")
    /\ SetFlags(UpdateContextFlag(Flags, "hasQuestion", TRUE))
    /\ ctx' = [ctx EXCEPT !["hasQuestion"] = TRUE]
    /\ Put(i, Idle)
    /\ UNCHANGED <<timerVars, doc, languageId, storedVars, selVars, timerStarted,
                   isExtensionEditing, trackVars, tasks, nCommands, nHuman>>

\* lines 1144-1157: the hint and the solution of the learner's own question
UserQuestionGenerated(i) ==
    /\ At(i, "startPractice", "uq_gen")
    /\ \E ai \in AiResponses :
          /\ storedHint' = ParseHint(ai)
          /\ storedSolution' = ParseSolution(ai)
    /\ isUserWrittenQuestion' = TRUE
    /\ hintsUsed' = 0
    /\ solutionViewed' = FALSE
    /\ Put(i, Goto(handlers[i], "uq_ctx", <<1>>))
    /\ UNCHANGED <<timerVars, doc, languageId, storedExplanation, selVars, flagVars,
                   timerStarted, isExtensionEditing, tasks, nCommands, nHuman>>

\* lines 1157-1161, and after the last of them lines 1292-1331
UserQuestionContext(i) ==
    /\ At(i, "startPractice", "uq_ctx")
    /\ LET k == handlers[i].loc[1]
       IN  IF k <= Len(ResetKeys)
           THEN /\ SetFlags(UpdateContextFlag(Flags, ResetKeys[k], FALSE))
                /\ ctx' = [ctx EXCEPT ![ResetKeys[k]] = FALSE]
                /\ Put(i, Goto(handlers[i], "uq_ctx", <<k + 1>>))
           ELSE /\ ctx' = [ctx EXCEPT !["hasQuestion"] = TRUE]
                /\ ToMenu(i, UpdateContextFlag(Flags, "hasQuestion", TRUE))
    /\ UNCHANGED <<timerVars, doc, languageId, storedVars, selVars, timerStarted,
                   isExtensionEditing, trackVars, tasks, nCommands, nHuman>>

(***************************************************************************)
(* codeforgex.evaluateSolution (lines 1587-1700)                           *)
(***************************************************************************)
\* what the evaluation collaborator may answer
EvalResponses ==
    {<<"Code Evaluation Summary:", NL, "fine", NL, "Suggestions:", NL,
       "LINE", " ", "1", ":", " ", "g1", NL, "LINE", "2", ":", "g2">>,
     <<"fine">>}

\* lines 1620-1624
EvalSummary(r) ==
    LET m == Section(r, "Code Evaluation Summary:", {"Suggestions:"})
    IN  IF m = Null THEN r ELSE Trim(m)

EvalSuggestionsText(r) ==
    LET m == Section(r, "Suggestions:", {})
    IN  IF m = Null THEN <<>> ELSE Trim(m)

\* .map(line => commentPrefix + (line.trim() ? line : ''))
RECURSIVE MapSummary(_, _)
MapSummary(p, ls) ==
    IF Len(ls) = 0 THEN <<>>
    ELSE <<<<p>> \o (IF Len(Trim(ls[1])) > 0 THEN ls[1] ELSE <<>>)>>
         \o MapSummary(p, Tail(ls))

\* lines 1633-1640
SummaryBlock(lang, summary) ==
    <<NL, NL, CommentPrefix(lang), "Evaluation:", NL>>
    \o Join(MapSummary(CommentPrefix(lang), Split(summary))) \o <<NL>>

IsDigitTok(x) == x \in {"0", "1", "2", "3", "4", "5", "6", "7", "8", "9"}

DigitVal(x) == CHOOSE d \in 0..9 : Digit(d) = x

RECURSIVE SkipWhile(_, _, _)
\* the first index from j on whose token is not of the kind (1: space, 2: digit)
SkipWhile(t, j, kind) ==
    IF j <= Len(t) /\ (IF kind = 1 THEN IsSpace(t[j]) ELSE IsDigitTok(t[j]))
    THEN SkipWhile(t, j + 1, kind) ELSE j

\* /LINE\s*(\d+):/i at index i: the index of the colon, 0 without a match
HeaderEnd(t, i) ==
    LET j == SkipWhile(t, i + 1, 1)
        k == SkipWhile(t, j, 2)
    IN  IF t[i] \in {"LINE", "line"} /\ k > j /\ k <= Len(t) /\ t[k] = ":" THEN k ELSE 0

RECURSIVE ParseInt(_, _)
ParseInt(t, acc) == IF Len(t) = 0 THEN acc ELSE ParseInt(Tail(t), 10 * acc + DigitVal(t[1]))

\* lines 1656-1660: the matches in the order of the text
RECURSIVE MatchesFrom(_, _)
MatchesFrom(t, i) ==
    LET heads == {h \in i..Len(t) : HeaderEnd(t, h) # 0}
    IN  IF heads = {} THEN <<>>
        ELSE LET h == Min(heads)
                 k == HeaderEnd(t, h)
                 later == {g \in (k + 1)..Len(t) : HeaderEnd(t, g) # 0}
                 stop == IF later = {} THEN Len(t) + 1 ELSE Min(later)
                 j == SkipWhile(t, h + 1, 1)
             IN  <<[lineNumber |-> ParseInt(SubSeq(t, j, k - 1), 0),
                    content |-> Trim(SubSeq(t, k + 1, stop - 1))]>>
                 \o MatchesFrom(t, stop)

\* the suggestions left in the order of the text
SortNotMut(ss) == ss

\* suggestions.sort((a, b) => b.lineNumber - a.lineNumber): stable, descending
RECURSIVE SortDescending(_)
SortDescending(ss) ==
    IF Len(ss) = 0 THEN <<>>
    ELSE LET top == CHOOSE k \in 1..Len(ss) :
                       /\ \A j \in 1..Len(ss) : ss[j].lineNumber <= ss[k].lineNumber
                       /\ \A j \in 1..(k - 1) : ss[j].lineNumber < ss[k].lineNumber
         IN  <<ss[top]>>
             \o SortDescending(SubSeq(ss, 1, top - 1) \o SubSeq(ss, top + 1, Len(ss)))

ParseSuggestions(text) == SortDescending(MatchesFrom(text, 1))

\* lines 1671-1675
RECURSIVE SuggestionLinesOf(_, _)
SuggestionLinesOf(p, ls) ==
    IF Len(ls) = 0 THEN <<>>
    ELSE (IF Len(Trim(ls[1])) > 0 THEN <<<<p>> \o Trim(ls[1])>> ELSE <<>>)
         \o SuggestionLinesOf(p, Tail(ls))

SuggestionText(lang, content) ==
    Join(SuggestionLinesOf(CommentPrefix(lang), Split(content))) \o <<NL>>

\* lines 1666-1669: the suggestion is within the lines read after the summary
\* went in and the line above holds no suggestion
Insertable(sg, lines) ==
    /\ sg.lineNumber - 1 >= 0
    /\ sg.lineNumber - 1 < Len(lines)
    /\ ~(sg.lineNumber - 1 >= 1 /\ Includes(lines[sg.lineNumber - 1], <<"Suggestion:">>))

\* lines 1665-1691: the loop runs to its next edit, or to its end
SuggestionStep(s, ss, lines, d, f, selFlag, hasSel) ==
    LET ok == {k \in 1..Len(ss) : Insertable(ss[k], lines)}
    IN  IF ok = {} THEN [slot |-> Finish(s, f, selFlag, hasSel), guard |-> FALSE]
        ELSE LET k == Min(ok)
             IN  [slot |-> Issue(s, "ev_sug", <<SubSeq(ss, k + 1, Len(ss)), lines>>,
                                 InsertAtLine(d, ss[k].lineNumber - 1,
                                              SuggestionText(languageId, ss[k].content)),
                                 TRUE),
                  guard |-> TRUE]

BeginEvaluate(i, m, ed) ==
    IF ~ed \/ ~Truthy(storedSolution) THEN ReturnAtOnce(i, New("evaluateSolution", m))
    ELSE /\ Put(i, Goto(New("evaluateSolution", m), "ev_call", <<>>))
         /\ UNCHANGED isExtensionEditing
         /\ OnlySlot
         /\ Counted(i)

EvaluateCalled(i) ==
    /\ At(i, "evaluateSolution", "ev_call")
    /\ \/ \* evaluateCode throws, or an evaluation is in the text already
          /\ \E hasSel \in SelChoices(handlers[i]) :
                Put(i, Finish(handlers[i], Flags, hasSelectionExplanationFlag, hasSel))
          /\ UNCHANGED isExtensionEditing
       \/ \E r \in EvalResponses :
             /\ ~Includes(doc, <<"Code Evaluation Summary:">>)
             /\ Put(i, Issue(handlers[i], "ev_edit", EvalSuggestionsText(r),
                             InsertAtEnd(doc, SummaryBlock(languageId, EvalSummary(r))),
                             TRUE))
             /\ isExtensionEditing' = TRUE
    /\ OnlySlot
    /\ UNCHANGED nCommands

EvaluateEdited(i) ==
    /\ At(i, "evaluateSolution", "ev_edit")
    /\ EditDone(i)
    /\ isExtensionEditing' = FALSE
    /\ PutApplied(i, Goto(handlers[i], "ev_ctx", handlers[i].loc), EditApplied(i))
    /\ UNCHANGED <<languageId, storedVars, otherFlagVars, trackVars, nCommands, nHuman>>

\* lines 1653-1691: evaluationVisible is set, the suggestions are read
EvaluateContext(i) ==
    /\ At(i, "evaluateSolution", "ev_ctx")
    /\ LET f == UpdateContextFlag(Flags, "evaluationVisible", TRUE)
           text == handlers[i].loc
       IN  /\ SetFlags(f)
           /\ ctx' = [ctx EXCEPT !["evaluationVisible"] = TRUE]
           /\ \E hasSel \in SelChoices(handlers[i]) :
                 LET n == SuggestionStep(handlers[i], ParseSuggestions(text), Split(doc),
                                         doc, f, hasSelectionExplanationFlag, hasSel)
                 IN  /\ Put(i, n.slot)
                     /\ isExtensionEditing' = (n.guard \/ isExtensionEditing)
    /\ UNCHANGED <<timerVars, doc, languageId, storedVars, selVars, timerStarted,
                   trackVars, tasks, nCommands, nHuman>>

EvaluateSuggested(i) ==
    /\ At(i, "evaluateSolution", "ev_sug")
    /\ EditDone(i)
    /\ \E hasSel \in SelChoices(handlers[i]) :
          LET o == ObsAfter(i)
              n == SuggestionStep(handlers[i], handlers[i].loc[1], handlers[i].loc[2],
                                  DocAfter(i), [Flags EXCEPT !.hasQuestion = o.hq],
                                  o.selFlag, hasSel)
          IN  /\ PutApplied(i, n.slot, EditApplied(i))
              /\ isExtensionEditing' = n.guard
    /\ UNCHANGED <<languageId, storedVars, otherFlagVars, trackVars, nCommands, nHuman>>

(***************************************************************************)
(* codeforgex.explainSelection (lines 1936-2007)                           *)
(***************************************************************************)
\* the selections the model follows: one whole non-empty line
Selections(d) == {l \in 0..(Len(Split(d)) - 1) : Len(Split(d)[l + 1]) > 0}

\* what the selection collaborator may answer for the selected text
SelectionResponses(lang, text) == {Annotate(lang, text)}

BeginExplainSelection(i, m, ed, sel) ==
    IF ~ed \/ sel = {} THEN ReturnAtOnce(i, New("explainSelection", m))
    ELSE \E l \in sel :
            /\ Put(i, Goto(New("explainSelection", m), "xs_call",
                           <<l, l, Len(Split(doc)[l + 1]), Split(doc)[l + 1]>>))
            /\ UNCHANGED isExtensionEditing
            /\ OnlySlot
            /\ Counted(i)

\* lines 1962-1979: explainSelection throws
ExplainSelectionFails(i) ==
    /\ At(i, "explainSelection", "xs_call")
    /\ \E hasSel \in SelChoices(handlers[i]) :
          Put(i, Finish(handlers[i], Flags, hasSelectionExplanationFlag, hasSel))
    /\ UNCHANGED isExtensionEditing
    /\ OnlySlot
    /\ UNCHANGED nCommands

SnapshotAlwaysMut(flag, snapshot, text) == text

\* lines 1989-1991: the snapshot is taken on the first explain only
SnapshotOnExplain(flag, snapshot, text) == IF ~flag THEN text ELSE snapshot

\* lines 1983-1995
ExplainSelectionCalled(i) ==
    /\ At(i, "explainSelection", "xs_call")
    /\ \E block \in SelectionResponses(languageId, handlers[i].loc[4]) :
          LET a == OffsetAt(doc, handlers[i].loc[1], 0)
              b == OffsetAt(doc, handlers[i].loc[2], handlers[i].loc[3])
          IN  /\ selectionFileSnapshot' =
                    SnapshotOnExplain(hasSelectionExplanationFlag, selectionFileSnapshot, doc)
              /\ selectionExplainedBlocks' = Append(selectionExplainedBlocks, block)
              /\ hasSelectionExplanationFlag' = TRUE
              /\ Put(i, Issue(handlers[i], "xs_edit", <<>>,
                              ReplaceOffsets(doc, a, b, block), a = b /\ Len(block) > 0))
    /\ isExtensionEditing' = TRUE
    /\ UNCHANGED <<timerVars, doc, languageId, storedVars, flagVars, timerStarted,
                   trackVars, tasks, nCommands, nHuman>>

ExplainSelectionEdited(i) ==
    /\ At(i, "explainSelection", "xs_edit")
    /\ EditDone(i)
    /\ isExtensionEditing' = FALSE
    /\ \E hasSel \in SelChoices(handlers[i]) :
          PutApplied(i, Finish(handlers[i], [Flags EXCEPT !.hasQuestion = ObsAfter(i).hq],
                               ObsAfter(i).selFlag, hasSel),
                     EditApplied(i))
    /\ UNCHANGED <<languageId, storedVars, otherFlagVars, trackVars, nCommands, nHuman>>

(***************************************************************************)
(* codeforgex.removeSelectionExplanation (lines 2013-2042)                 *)
(***************************************************************************)
BeginRemoveSelectionExplanation(i, m, ed) ==
    IF ~ed \/ ~hasSelectionExplanationFlag \/ ~Truthy(selectionFileSnapshot)
    THEN ReturnAtOnce(i, New("removeSelectionExplanation", m))
    ELSE /\ isExtensionEditing' = TRUE
         /\ Put(i, Issue(New("removeSelectionExplanation", m), "rs_edit", <<>>,
                         selectionFileSnapshot, Len(doc) = 0))
         /\ OnlySlot
         /\ Counted(i)

\* a removal that forgets the explained blocks' list
RemoveSelectionExplanationEditedMut(i) ==
    /\ At(i, "removeSelectionExplanation", "rs_edit")
    /\ doc' = DocAfter(i)
    /\ SetObs([ObsAfter(i) EXCEPT !.selFlag = FALSE, !.selSnap = Null])
    /\ isExtensionEditing' = FALSE
    /\ \E hasSel \in SelChoices(handlers[i]) :
          PutApplied(i, Finish(handlers[i], [Flags EXCEPT !.hasQuestion = ObsAfter(i).hq],
                               FALSE, hasSel),
                     EditApplied(i))
    /\ UNCHANGED <<languageId, storedVars, otherFlagVars, trackVars, nCommands, nHuman>>

\* lines 2025-2040: the edit resolves, the selection state is cleared
RemoveSelectionExplanationEdited(i) ==
    /\ At(i, "removeSelectionExplanation", "rs_edit")
    /\ doc' = DocAfter(i)
    /\ SetObs([ObsAfter(i) EXCEPT !.selFlag = FALSE, !.selBlocks = <<>>, !.selSnap = Null])
    /\ isExtensionEditing' = FALSE
    /\ \E hasSel \in SelChoices(handlers[i]) :
          PutApplied(i, Finish(handlers[i], [Flags EXCEPT !.hasQuestion = ObsAfter(i).hq],
                               FALSE, hasSel),
                     EditApplied(i))
    /\ UNCHANGED <<languageId, storedVars, otherFlagVars, trackVars, nCommands, nHuman>>

(***************************************************************************)
(* Commands as the user invokes them                                       *)
(***************************************************************************)
\* a command starts in the lowest idle slot
Free(i) == FirstIdle(i) /\ (Overlapping(i) => nCommands.overlap < MaxOverlaps)

Invocable(i) == nCommands.other < MaxCommands /\ Free(i)

StartInvoked(max) ==
    \E i \in Slots, ed \in BOOLEAN :
       nCommands.start < max /\ Free(i) /\ BeginStart(i, ed)

InvokeStartPractice == StartInvoked(MaxStarts)

InvokeShowHint ==
    \E i \in Slots, ed \in BOOLEAN : Invocable(i) /\ BeginShowHint(i, FALSE, ed)

InvokeHideHint ==
    \E i \in Slots, ed \in BOOLEAN : Invocable(i) /\ BeginHideHint(i, FALSE, ed)

InvokeRemoveHint ==
    \E i \in Slots, ed \in BOOLEAN : Invocable(i) /\ BeginRemoveHint(i, FALSE, ed)

InvokeShowSolution ==
    \E i \in Slots, ed \in BOOLEAN :
       Invocable(i) /\ BeginShowSolution(i, FALSE, ed)

InvokeEvaluateSolution ==
    \E i \in Slots, ed \in BOOLEAN : Invocable(i) /\ BeginEvaluate(i, FALSE, ed)

InvokeRemoveEvaluation ==
    \E i \in Slots, ed \in BOOLEAN :
       Invocable(i) /\ BeginRemoveEvaluation(i, FALSE, ed)

InvokeExplainCode ==
    \E i \in Slots, ed \in BOOLEAN : Invocable(i) /\ BeginExplainCode(i, FALSE, ed)

InvokeRemoveExplanation ==
    \E i \in Slots, ed \in BOOLEAN :
       Invocable(i) /\ BeginRemoveExplanation(i, FALSE, ed)

InvokeExplainSelection ==
    \E i \in Slots, ed \in BOOLEAN :
       Invocable(i) /\ BeginExplainSelection(i, FALSE, ed, Selections(doc))

InvokeRemoveSelectionExplanation ==
    \E i \in Slots, ed \in BOOLEAN :
       Invocable(i) /\ BeginRemoveSelectionExplanation(i, FALSE, ed)

InvokeRun == \E i \in Slots : Invocable(i) /\ BeginRun(i)

InvokeTimerControls == \E i \in Slots : Invocable(i) /\ BeginTimerControls(i)

\* lines 1326-1370: the picker of startPractice resolves; the user picks one of
\* the offered actions that are in `wanted`, or closes the picker
MenuPicked(i, wanted) ==
    /\ At(i, "startPractice", "menu")
    /\ \E k \in 0..Len(handlers[i].loc), ed \in BOOLEAN :
          IF k = 0
          THEN /\ Put(i, Idle)
               /\ UNCHANGED <<isExtensionEditing, nCommands>>
               /\ OnlySlot
          ELSE /\ nCommands.other < MaxCommands
               /\ handlers[i].loc[k] \in wanted
               /\ LET action == handlers[i].loc[k]
                  IN  CASE action = "Explain Selection" ->
                             BeginExplainSelection(i, TRUE, ed, Selections(doc))
                        [] action = "Remove Selection Explanation" ->
                             BeginRemoveSelectionExplanation(i, TRUE, ed)
                        [] action = "Show Hint" -> BeginShowHint(i, TRUE, ed)
                        [] action = "Hide Hint" -> BeginHideHint(i, TRUE, ed)
                        [] action = "Show Solution" -> BeginShowSolution(i, TRUE, ed)
                        [] action = "Explain Code" -> BeginExplainCode(i, TRUE, ed)
                        [] action = "Evaluate Code" -> BeginEvaluate(i, TRUE, ed)
                        [] action = "Remove Evaluation" -> BeginRemoveEvaluation(i, TRUE, ed)
                        [] action = "Remove Explanation" ->
                             BeginRemoveExplanation(i, TRUE, ed)

(***************************************************************************)
(* The practice session: a question is generated, the learner types, asks  *)
(* for the hint and the solution, runs the file and controls the timer     *)
(***************************************************************************)
PracticeMenu == {"Show Hint", "Hide Hint", "Show Solution"}

StartSteps(i) ==
    \/ StartContextReset(i)
    \/ StartTopic(i)
    \/ StartInput(i)
    \/ StartDifficulty(i)
    \/ GenerationFails(i)
    \/ StartGenerated(i)
    \/ StartEdited(i)
    \/ StartQuestionSet(i)
    \/ UserQuestionGenerated(i)
    \/ UserQuestionContext(i)

PracticeSteps(i) ==
    \/ ShowHintEdited(i)
    \/ RemoveBlockEdited(i)
    \/ ShowSolutionEdited(i)
    \/ ContextUpdated(i)
    \/ EditThrows(i)
    \/ RunSaves(i)
    \/ RunReturned(i)
    \/ RunThrows(i)
    \/ TimerControlPicked(i)

Next ==
    \/ InvokeStartPractice
    \/ InvokeShowHint
    \/ InvokeHideHint
    \/ InvokeRemoveHint
    \/ InvokeShowSolution
    \/ InvokeRun
    \/ InvokeTimerControls
    \/ \E i \in Slots : StartSteps(i) \/ MenuPicked(i, PracticeMenu) \/ PracticeSteps(i)
    \/ TaskResumes
    \/ Tick(MaxSessionSeconds)
    \/ HumanEdit

Spec == Init /\ [][Next]_vars

(***************************************************************************)
(* The review session: the solution is shown, explained and evaluated,     *)
(* selections are explained                                                *)
(***************************************************************************)
ReviewMenu ==
    {"Show Solution", "Explain Code", "Remove Explanation", "Evaluate Code",
     "Remove Evaluation", "Explain Selection", "Remove Selection Explanation"}

ReviewSteps(i) ==
    \/ ShowSolutionEdited(i)
    \/ RemoveBlockEdited(i)
    \/ ExplainCodeCalled(i)
    \/ ExplainCodeEdited(i)
    \/ RemoveExplanationEdited(i)
    \/ EvaluateCalled(i)
    \/ EvaluateEdited(i)
    \/ EvaluateContext(i)
    \/ EvaluateSuggested(i)
    \/ ExplainSelectionFails(i)
    \/ ExplainSelectionCalled(i)
    \/ ExplainSelectionEdited(i)
    \/ RemoveSelectionExplanationEdited(i)
    \/ ContextUpdated(i)
    \/ EditThrows(i)

NextReview ==
    \/ InvokeStartPractice
    \/ InvokeShowSolution
    \/ InvokeEvaluateSolution
    \/ InvokeRemoveEvaluation
    \/ InvokeExplainCode
    \/ InvokeRemoveExplanation
    \/ InvokeExplainSelection
    \/ InvokeRemoveSelectionExplanation
    \/ \E i \in Slots : StartSteps(i) \/ MenuPicked(i, ReviewMenu) \/ ReviewSteps(i)
    \/ TaskResumes
    \/ HumanEdit

SpecReview == Init /\ [][NextReview]_vars

(***************************************************************************)
(* The solo session: the learner runs one command at a time and edits the  *)
(* document only while no command is in progress and the listener has      *)
(* finished with the change before                                         *)
(***************************************************************************)
AllIdle == tasks = <<>> /\ \A i \in Slots : handlers[i].cmd = "idle"

\* what the learner does to the text d in the solo session: types at the end,
\* replaces everything, types at the end of the last line of the solution,
\* deletes the hint block, or brings a deleted hint block back by undo
SoloEdits(d, sol) ==
    {[doc |-> d \o <<"x">>, changes |-> <<[rangeLength |-> 0, text |-> <<"x">>]>>]}
    \cup (IF ~HasBlock(d, languageId, "Hint:") THEN {}
          ELSE {[doc |-> RemoveBlock(d, languageId, "Hint:"),
                 changes |-> <<[rangeLength |->
                                   Len(d) - Len(RemoveBlock(d, languageId, "Hint:")),
                                text |-> <<>>]>>]})
    \cup (IF ~(Truthy(storedHint) /\ hintsUsed > 0 /\ ~Includes(d, <<"Hint:">>)) THEN {}
          ELSE {[doc |-> InsertAtEnd(d, HintContent(languageId, storedHint)),
                 changes |-> <<[rangeLength |-> 0,
                                text |-> HintContent(languageId, storedHint)]>>]})
    \cup (IF Len(d) = 0 THEN {}
          ELSE {[doc |-> <<"y">>,
                 changes |-> <<[rangeLength |-> Len(d), text |-> <<"y">>]>>]})
    \cup (IF ~(Truthy(sol) /\ Includes(d, sol)) THEN {}
          ELSE LET e == IndexOf(d, sol) + Len(sol) - 1
               IN  {[doc |-> SubSeq(d, 1, e) \o <<"x">> \o SubSeq(d, e + 1, Len(d)),
                     changes |-> <<[rangeLength |-> 0, text |-> <<"x">>]>>]})

HumanEditSolo ==
    /\ nHuman < MaxHumanEdits
    /\ AllIdle
    /\ \E e \in SoloEdits(doc, storedSolution) : HumanEditOf(e)

SoloSteps(i) ==
    \/ ShowHintEdited(i)
    \/ RemoveBlockEdited(i)
    \/ ShowSolutionEdited(i)
    \/ ExplainCodeCalled(i)
    \/ ExplainCodeEdited(i)
    \/ RemoveExplanationEdited(i)
    \/ EvaluateCalled(i)
    \/ EvaluateEdited(i)
    \/ EvaluateContext(i)
    \/ EvaluateSuggested(i)
    \/ ExplainSelectionFails(i)
    \/ ExplainSelectionCalled(i)
    \/ ExplainSelectionEdited(i)
    \/ RemoveSelectionExplanationEdited(i)
    \/ ContextUpdated(i)

NextSolo ==
    \/ AllIdle /\ StartInvoked(MaxSoloStarts)
    \/ AllIdle /\ InvokeShowHint
    \/ AllIdle /\ InvokeHideHint
    \/ AllIdle /\ InvokeRemoveHint
    \/ AllIdle /\ InvokeShowSolution
    \/ AllIdle /\ InvokeEvaluateSolution
    \/ AllIdle /\ InvokeRemoveEvaluation
    \/ AllIdle /\ InvokeExplainCode
    \/ AllIdle /\ InvokeRemoveExplanation
    \/ AllIdle /\ InvokeExplainSelection
    \/ AllIdle /\ InvokeRemoveSelectionExplanation
    \/ \E i \in Slots :
          StartSteps(i) \/ MenuPicked(i, PracticeMenu \cup ReviewMenu) \/ SoloSteps(i)
    \/ TaskResumes
    \/ HumanEditSolo

SpecSolo == Init /\ [][NextSolo]_vars

(***************************************************************************)
(* The Tracker alone: every sequence of calls of PracticeTimer and ticks   *)
(***************************************************************************)
CallStart == SetWorld(TimerStart(World)) /\ UNCHANGED sessionVars

CallPause == SetWorld(TimerPause(World)) /\ UNCHANGED sessionVars

CallResume == SetWorld(TimerResume(World)) /\ UNCHANGED sessionVars

CallReset == SetWorld(TimerReset(World)) /\ UNCHANGED sessionVars

CallStop == SetWorld(TimerStop(World)) /\ UNCHANGED sessionVars

NextTimer ==
    \/ CallStart
    \/ CallPause
    \/ CallResume
    \/ CallReset
    \/ CallStop
    \/ Tick(MaxSeconds)

SpecTimer == Init /\ [][NextTimer]_vars

(***************************************************************************)
(* Properties of the guard, checked under Spec                             *)
(***************************************************************************)
\* the step delivers a change event of the active document to the listener: the
\* human changed it, Run saved it, or an edit changed its text
EventDelivered ==
    \/ \E e \in HumanEdits(doc, languageId) : HumanEditOf(e)
    \/ \E i \in Slots : RunSaves(i)
    \/ doc' # doc

\* C1: a document-change event delivered while isExtensionEditing is true never
\* starts the Tracker, never sets timerStarted, never changes hasQuestionFlag and
\* leaves no update of it pending.
C1_GuardDiscipline ==
    [][isExtensionEditing /\ EventDelivered =>
          UNCHANGED <<practiceTimer, liveIntervals, timerStarted, hasQuestionFlag, tasks>>]_vars

\* C1 (witness): Run is the only command so far and is in progress with the guard
\* set, the human has typed a question line meanwhile, and neither the question
\* flag nor the Tracker has moved.
C1_TypedUnderGuard ==
    /\ \E i \in Slots : handlers[i].cmd = "run"
    /\ isExtensionEditing
    /\ nCommands = [start |-> 0, other |-> 1, overlap |-> 0]
    /\ nHuman = 1
    /\ Includes(doc, <<"write a function">>)
    /\ ~hasQuestionFlag
    /\ ~timerStarted
    /\ ~practiceTimer.isRunning

\* C2 (as claimed): whenever an edit issued by a command handler is in flight,
\* isExtensionEditing is true, under every interleaving of suspended handlers.
C2_GuardWhileInFlight ==
    \A i \in Slots : InFlight(handlers[i]) => isExtensionEditing

\* C3 (as claimed): at most one edit is outstanding at any time.
C3_OneOutstanding ==
    Cardinality({i \in Slots : InFlight(handlers[i])}) <= 1

\* C4 (as claimed): once every command handler has returned, by a return or by a
\* throw of its edit or of its collaborator, isExtensionEditing is false.
C4_GuardReleased ==
    (\A i \in Slots : handlers[i].cmd = "idle") => ~isExtensionEditing

\* C5 (as claimed): isExtensionEditing is true only while an edit is in flight.
C5_GuardOnlyInFlight ==
    isExtensionEditing => \E i \in Slots : InFlight(handlers[i])

\* C5 (amended): Run sets isExtensionEditing before it awaits runActiveFile and
\* the save inside it leaves the flag alone; the flag goes from false to true
\* only when a handler issues an edit or Run starts, and from true to false only
\* when a handler resumes from its awaited edit or from runActiveFile.
C5_GuardSetAndCleared ==
    [][/\ \A i \in Slots :
             handlers[i].pc # "run" /\ handlers'[i].pc = "run" => isExtensionEditing'
       /\ \A i \in Slots : RunSaves(i) => isExtensionEditing' = isExtensionEditing
       /\ ~isExtensionEditing /\ isExtensionEditing' =>
             \E i \in Slots :
                /\ handlers'[i] # handlers[i]
                /\ InFlight(handlers'[i]) \/ handlers'[i].pc = "run"
       /\ isExtensionEditing /\ ~isExtensionEditing' =>
             \E i \in Slots :
                /\ InFlight(handlers[i]) \/ handlers[i].cmd = "run"
                /\ handlers'[i].pc # handlers[i].pc]_vars

\* C5 (witness): Run has saved and awaits the launch with the guard set, and no
\* edit is in flight.
C5_RunHoldsGuard ==
    /\ \E i \in Slots : handlers[i].pc = "run_saved"
    /\ isExtensionEditing
    /\ \A j \in Slots : ~InFlight(handlers[j])

(***************************************************************************)
(* Properties of the listener and of the handlers, checked under Spec      *)
(***************************************************************************)
\* the listener has no explanation flag to resynchronise on text d first
NoResync(d) ==
    ~(Truthy(storedExplanation) /\ Includes(d, storedExplanation) # hasExplanationFlag)

ShowHintInvoked ==
    \E i \in Slots, m \in BOOLEAN :
       /\ IF m THEN At(i, "startPractice", "menu") ELSE FirstIdle(i)
       /\ BeginShowHint(i, m, TRUE)

ShowSolutionInvoked ==
    \E i \in Slots, m \in BOOLEAN :
       /\ IF m THEN At(i, "startPractice", "menu") ELSE FirstIdle(i)
       /\ BeginShowSolution(i, m, TRUE)

\* the invocation changes neither the document nor a flag and issues no edit
NothingShown ==
    /\ UNCHANGED <<doc, flagVars, storedVars, trackVars, isExtensionEditing, timerVars,
                   timerStarted, selVars, tasks>>
    /\ \A j \in Slots : InFlight(handlers'[j]) => handlers'[j] = handlers[j]

HintCount(d) == Cardinality({k \in 1..Len(d) : d[k] = "Hint:"})

\* C10: Show Hint invoked with a stored hint whose block a first call has put
\* into the document is a no-op, and the document never holds the hint block
\* twice; Show Solution invoked while the stored solution is in the document
\* changes neither the document nor a flag.
C10_ShowIsIdempotent ==
    [][/\ HintCount(doc') <= 1
       /\ /\ ShowHintInvoked
          /\ Truthy(storedHint)
          /\ Includes(doc, HintContent(languageId, storedHint))
          => NothingShown
       /\ /\ ShowSolutionInvoked
          /\ Truthy(storedSolution)
          /\ Includes(doc, storedSolution)
          => NothingShown]_vars

\* C10 (witness): the first Show Hint has completed, its block is in the
\* document once, and a second Show Hint can be invoked.
C10_HintShownOnce ==
    /\ Truthy(storedHint)
    /\ HintCount(doc) = 1
    /\ Includes(doc, HintContent(languageId, storedHint))
    /\ hintsUsed = 1
    /\ hintVisibleFlag
    /\ ~isExtensionEditing
    /\ \A i \in Slots : handlers[i].cmd = "idle"
    /\ nCommands.other < MaxCommands

(***************************************************************************)
(* Properties of the Tracker, checked under SpecTimer                      *)
(***************************************************************************)
\* reading a displayed time back: the digits before the colon, the two after it
MinutesOf(t) == ParseInt(SubSeq(t, 1, Len(t) - 3), 0)

SecondsOf(t) == ParseInt(SubSeq(t, Len(t) - 1, Len(t)), 0)

\* MM:SS, both zero-padded to two digits, the minutes longer only past 99
WellFormedTime(t) ==
    /\ Len(t) >= 5
    /\ t[Len(t) - 2] = ":"
    /\ \A k \in 1..Len(t) : k # Len(t) - 2 => IsDigitTok(t[k])
    /\ SecondsOf(t) < 60
    /\ Len(t) > 5 => t[1] # "0"

\* C7: over every sequence of start/pause/resume/reset/stop calls and ticks, a
\* tick adds exactly 1 to the elapsed seconds, the seconds change in no other
\* way while the Tracker runs, they do not change at all while it is paused, and
\* they return to 0 only through reset or stop.
C7_SecondsMonotone ==
    [][/\ Tick(MaxSeconds) => practiceTimer'.seconds = practiceTimer.seconds + 1
       /\ practiceTimer'.seconds # practiceTimer.seconds =>
             \/ /\ practiceTimer.isRunning
                /\ practiceTimer'.seconds = practiceTimer.seconds + 1
             \/ /\ practiceTimer'.seconds = 0
                /\ CallReset \/ CallStop]_vars

\* C7 (witness): the Tracker is paused with the seconds it had counted.
C7_PausedKeepsSeconds ==
    /\ ~practiceTimer.isRunning
    /\ practiceTimer.interval = NoInterval
    /\ practiceTimer.seconds = 75
    /\ statusText = StatusOf(<<"0", "1", ":", "1", "5">>)

\* C8: from any state of the Tracker, stop() and reset() leave it idle with 0
\* elapsed seconds and "00:00" on display, and stop() returns the time MM:SS
\* that reads back as the seconds counted before they were zeroed.
C8_StopResetZero ==
    [][/\ CallReset \/ CallStop =>
             /\ ~practiceTimer'.isRunning
             /\ practiceTimer'.interval = NoInterval
             /\ practiceTimer'.seconds = 0
             /\ statusText' = <<"timer ", "0", "0", ":", "0", "0">>
       /\ CallStop =>
             /\ finalTime' # Null
             /\ WellFormedTime(finalTime')
             /\ 60 * MinutesOf(finalTime') + SecondsOf(finalTime') = practiceTimer.seconds]_vars

\* C8 (witness): stop() has returned "100:01" and the Tracker is idle at zero.
C8_StoppedAfterHundredMinutes ==
    /\ finalTime = <<"1", "0", "0", ":", "0", "1">>
    /\ ~practiceTimer.isRunning
    /\ practiceTimer.seconds = 0
    /\ statusText = StatusOf(ZeroTime)

\* C9: the Tracker has at most one tick source: a live interval exists exactly
\* when the Tracker runs and it is the one the Tracker holds, start() and
\* resume() on a running Tracker create no interval, and with the Tracker not
\* running no interval is left to deliver a tick.
C9_OneTickSource ==
    /\ [](/\ Cardinality(liveIntervals) <= 1
          /\ (liveIntervals # {}) = practiceTimer.isRunning
          /\ practiceTimer.isRunning => liveIntervals = {practiceTimer.interval}
          /\ ~practiceTimer.isRunning => practiceTimer.interval = NoInterval)
    /\ [][practiceTimer.isRunning /\ (CallStart \/ CallResume) =>
             UNCHANGED <<practiceTimer, liveIntervals>>]_vars
    /\ [][~practiceTimer.isRunning /\ ~practiceTimer'.isRunning =>
             practiceTimer'.seconds <= practiceTimer.seconds]_vars

\* C9 (witness): the Tracker runs again after a pause, on one interval.
C9_RunningOnOneInterval ==
    /\ practiceTimer.isRunning
    /\ liveIntervals = {practiceTimer.interval}
    /\ practiceTimer.seconds = 61
    /\ finalTime = Null

(***************************************************************************)
(* Properties of the explanations, checked under SpecSolo                  *)
(***************************************************************************)
\* the text Remove Explanation leaves when it is invoked on text d with the
\* explanation expl and the solution sol stored (lines 1781-1793)
Reverted(d, expl, sol) ==
    IF Truthy(expl) /\ Truthy(sol) /\ Includes(d, expl) THEN ReplaceFirst(d, expl, sol)
    ELSE d

\* C11 (as claimed): whenever Explain Code has replaced the solution by its
\* explanation, Remove Explanation invoked next, with no human edit between
\* the two, gives back exactly the text the document had before Explain Code.
C11_ExplainRemoveRoundTrip ==
    [][\A i \in Slots :
          ExplainCodeEdited(i) /\ EditApplied(i) =>
             Reverted(doc', storedExplanation', storedSolution') = doc]_vars

\* C12: the snapshot is the text of the document when the first Explain
\* Selection of a series replaces its lines, later Explain Selection calls and
\* every other step leave it as it is while selection explanations are
\* present, and Remove Selection Explanation puts the snapshot back as the whole
\* document and clears the flag, the explained blocks and the snapshot.
C12_SnapshotRoundTrip ==
    [][/\ \A i \in Slots :
             ExplainSelectionCalled(i) =>
                /\ hasSelectionExplanationFlag'
                /\ selectionFileSnapshot' =
                      (IF hasSelectionExplanationFlag THEN selectionFileSnapshot ELSE doc)
       /\ hasSelectionExplanationFlag /\ hasSelectionExplanationFlag' =>
             selectionFileSnapshot' = selectionFileSnapshot
       /\ \A i \in Slots :
             RemoveSelectionExplanationEdited(i) =>
                /\ EditApplied(i) => doc' = selectionFileSnapshot
                /\ ~hasSelectionExplanationFlag'
                /\ selectionExplainedBlocks' = <<>>
                /\ selectionFileSnapshot' = Null]_vars

\* C12 (witness): two selections have been explained since the question was
\* generated, and Remove Selection Explanation is putting back the text the
\* document had before the first of them.
C12_RemovingTwoExplanations ==
    /\ \E i \in Slots :
          /\ handlers[i].cmd = "removeSelectionExplanation"
          /\ handlers[i].pc = "rs_edit"
          /\ handlers[i].res = selectionFileSnapshot
    /\ Len(selectionExplainedBlocks) = 2
    /\ selectionFileSnapshot =
          <<"// ", "Question (", "Medium", ")", NL, NL, "// ", "q1", NL, NL>>
    /\ Cardinality({k \in 1..Len(doc) : doc[k] = "why"}) = 2
    /\ nHuman = 0

(***************************************************************************)
(* Properties of Start Practice, checked under SpecSolo                    *)
(***************************************************************************)
\* C13: when Start Practice has generated a question from a well-formed
\* response and sets hasQuestion, the four other flags are false, hasQuestion is
\* true, hintsUsed is 0, solutionViewed is false, the hint and the solution of
\* the response are stored, the document begins with the commented Question
\* header, and the action list is exactly Show Hint, Show Solution.
C13_FreshQuestion ==
    [][\A i \in Slots :
          StartQuestionSet(i) /\ Truthy(storedSolution) =>
             /\ ~hintVisibleFlag' /\ ~solutionVisibleFlag'
             /\ ~hasExplanationFlag' /\ ~evaluationVisibleFlag'
             /\ hasQuestionFlag'
             /\ hintsUsed' = 0
             /\ ~solutionViewed'
             /\ storedHint' = <<"h1">>
             /\ storedSolution' = <<"s1", NL, "s2">>
             /\ Len(doc') > 4
             /\ SubSeq(doc', 1, 4) =
                   <<CommentPrefix(languageId), "Question (", "Medium", ")">>
             /\ BuildAvailableActions(Flags') = <<"Show Hint", "Show Solution">>]_vars

\* C13 (witness): a question has just been generated into a document that still
\* holds the hint shown for an earlier question, and the session state is that
\* of a fresh question.
C13_GeneratedOverOldHint ==
    /\ AllIdle
    /\ hasQuestionFlag /\ ~hintVisibleFlag
    /\ hintsUsed = 0
    /\ storedSolution = <<"s1", NL, "s2">>
    /\ Len(doc) > 2 /\ doc[2] = "Question ("
    /\ Includes(doc, <<"Hint:">>)
    /\ nCommands.start = MaxSoloStarts

\* the handler in slot i is, after the step, on its way to the topic prompt or
\* at one of the prompts of Start Practice
TowardsPrompt(i) ==
    /\ handlers'[i].cmd = "startPractice"
    /\ handlers'[i].pc \in {"st_ctx", "st_topic", "st_input", "st_diff"}

\* C14 (as claimed): Start Practice changes no flag, no count, no stored text
\* and nothing of the document before the topic and the difficulty prompt have
\* been answered, so that closing either prompt leaves the session state of
\* before the invocation.
C14_CancelChangesNothing ==
    [][\A i \in Slots :
          TowardsPrompt(i) =>
             UNCHANGED <<hasQuestionFlag, hintVisibleFlag, solutionVisibleFlag,
                         hasExplanationFlag, evaluationVisibleFlag, hintsUsed,
                         solutionViewed, isUserWrittenQuestion, storedHint,
                         storedSolution, storedExplanation, doc>>]_vars

\* C15 (as claimed): when generatePracticeQuestion has failed, Start Practice
\* ends there: it stores no hint and no solution, leaves hasQuestion and the
\* document as they are, and awaits no edit.
C15_FailedGenerationAborts ==
    [][\A i \in Slots :
          /\ StartGenerated(i)
          /\ handlers'[i].res =
                FinalContent(languageId, handlers[i].loc[1], ErrorResponse) \o doc
          => /\ handlers'[i].cmd = "idle"
             /\ UNCHANGED <<storedHint, storedSolution, hasQuestionFlag, doc>>]_vars

(***************************************************************************)
(* buildAvailableActions alone: every combination of the flags, and the    *)
(* picker that shows the list                                              *)
(***************************************************************************)
InitFlags ==
    /\ practiceTimer = [interval |-> NoInterval, seconds |-> 0, isRunning |-> FALSE]
    /\ liveIntervals = {}
    /\ statusText = StatusOf(ZeroTime)
    /\ finalTime = Null
    /\ doc = <<>>
    /\ languageId \in Languages
    /\ storedHint = Null
    /\ storedSolution = Null
    /\ storedExplanation = Null
    /\ isUserWrittenQuestion = FALSE
    /\ selectionFileSnapshot = Null
    /\ selectionExplainedBlocks = <<>>
    /\ hasSelectionExplanationFlag \in BOOLEAN
    /\ hasQuestionFlag \in BOOLEAN
    /\ solutionVisibleFlag \in BOOLEAN
    /\ hasExplanationFlag \in BOOLEAN
    /\ hintVisibleFlag \in BOOLEAN
    /\ evaluationVisibleFlag \in BOOLEAN
    /\ ctx = Flags
    /\ timerStarted = FALSE
    /\ isExtensionEditing = FALSE
    /\ hintsUsed = 0
    /\ solutionViewed = FALSE
    /\ handlers = [i \in Slots |-> Idle]
    /\ tasks = <<>>
    /\ nCommands = [start |-> 0, other |-> 0, overlap |-> 0]
    /\ nHuman = 0

\* lines 1303-1331: the list is built and the picker is shown
PickerShown ==
    /\ AllIdle
    /\ \E i \in Slots, hasSel \in BOOLEAN :
          /\ FirstIdle(i)
          /\ Put(i, Finish(New("startPractice", TRUE), Flags,
                           hasSelectionExplanationFlag, hasSel))
    /\ UNCHANGED <<isExtensionEditing, nCommands>>
    /\ OnlySlot

\* the picker is closed without a choice
PickerClosed == \E i \in Slots : MenuPicked(i, {})

NextActions == PickerShown \/ PickerClosed

SpecActions == InitFlags /\ [][NextActions]_vars

\* the order in which the actions are listed
ActionOrder ==
    <<"Hide Hint", "Show Hint", "Show Solution", "Explain Code", "Remove Evaluation",
      "Evaluate Code", "Remove Explanation">>

\* the actions the rules offer under the flags f
Offered(f) ==
    {a \in {"Hide Hint"} : f.hasQuestion /\ ~f.solutionVisible /\ f.hintVisible}
    \cup {a \in {"Show Hint"} : f.hasQuestion /\ ~f.solutionVisible /\ ~f.hintVisible}
    \cup {a \in {"Show Solution"} : f.hasQuestion /\ ~f.solutionVisible}
    \cup {a \in {"Explain Code"} : f.solutionVisible /\ ~f.hasExplanation}
    \cup {a \in {"Remove Evaluation"} : f.solutionVisible /\ f.evaluationVisible}
    \cup {a \in {"Evaluate Code"} : f.solutionVisible /\ ~f.evaluationVisible}
    \cup {a \in {"Remove Explanation"} : f.hasExplanation}

IsOffered(a) == a \in Offered(Flags)

\* C16: under every combination of the flags the action list is the offered
\* actions in the order Hide Hint or Show Hint, Show Solution, Explain Code,
\* Remove Evaluation or Evaluate Code, Remove Explanation, each at most once,
\* and the picker shows that list after the selection actions.
C16_ActionList ==
    /\ BuildAvailableActions(Flags) = SelectSeq(ActionOrder, IsOffered)
    /\ \A i \in Slots :
          handlers[i].pc = "menu" =>
             \E hasSel \in BOOLEAN :
                handlers[i].loc =
                   (IF hasSel THEN <<"Explain Selection">> ELSE <<>>)
                   \o (IF hasSelectionExplanationFlag
                       THEN <<"Remove Selection Explanation">> ELSE <<>>)
                   \o SelectSeq(ActionOrder, IsOffered)

\* C16 (witness): the picker lists the hint toggle, the solution and the removal
\* of an explanation for a question whose hint and explanation are shown.
C16_HintAndExplanationListed ==
    /\ hasQuestionFlag /\ hintVisibleFlag /\ hasExplanationFlag /\ ~solutionVisibleFlag
    /\ \E i \in Slots :
          /\ handlers[i].pc = "menu"
          /\ handlers[i].loc = <<"Hide Hint", "Show Solution", "Remove Explanation">>

(***************************************************************************)
(* Properties of the hint and the solution, checked under SpecSolo         *)
(***************************************************************************)
\* C17: Hide Hint takes the hint block out of the document, keeps storedHint
\* and the count, and sets hintVisible to false, after which Show Hint is no
\* duplicate; every Show Hint that inserts the hint adds exactly one to
\* hintsUsed, and nothing else changes hintsUsed but the reset to 0 of a new
\* question: not Hide Hint, not Remove Hint, not a Show Hint that returns early.
C17_HintCount ==
    [][/\ \A i \in Slots :
             RemoveBlockEdited(i) /\ handlers[i].cmd = "hideHint" =>
                /\ ~HintDuplicate(doc')
                /\ storedHint' = storedHint
                /\ hintsUsed' = hintsUsed
                /\ handlers'[i].loc = <<"hintVisible", FALSE>>
       /\ \A i \in Slots :
             ContextUpdated(i) /\ handlers[i].cmd = "hideHint" => ~hintVisibleFlag'
       /\ \A i \in Slots :
             ShowHintEdited(i) =>
                /\ hintsUsed' = hintsUsed + 1
                /\ Includes(doc', HintContent(languageId, storedHint))
       /\ hintsUsed' # hintsUsed =>
             \/ \E i \in Slots : ShowHintEdited(i)
             \/ hintsUsed' = 0 /\ \E i \in Slots : handlers'[i].cmd = "startPractice"]_vars

\* C17 (witness): the hint has been shown, hidden and shown again: it is in the
\* document once and has been counted twice.
C17_ShownHiddenShown ==
    /\ AllIdle
    /\ hintsUsed = 2
    /\ hintVisibleFlag
    /\ HintCount(doc) = 1
    /\ nCommands.start = 1

\* C18 (as claimed): while the human has not edited the document, nothing sets
\* solutionVisible back to false once it is true, and a picker shown after the
\* solution was revealed does not offer Show Solution.
C18_SolutionStaysRevealed ==
    [][nHuman' = 0 =>
          /\ solutionVisibleFlag => solutionVisibleFlag'
          /\ \A i \in Slots :
                solutionViewed' /\ handlers'[i].pc = "menu" =>
                   \A k \in 1..Len(handlers'[i].loc) :
                      handlers'[i].loc[k] # "Show Solution"]_vars

(***************************************************************************)
(* Properties of Remove Explanation and of the evaluation, checked under   *)
(* SpecSolo                                                                *)
(***************************************************************************)
\* lines 1781-1790: Remove Explanation, invoked on text d, gets to its revert
CanRevert(d) ==
    Truthy(storedExplanation) /\ Truthy(storedSolution) /\ Includes(d, storedExplanation)

\* C19 (as claimed): whenever hasExplanation is true and the learner can invoke
\* a command, Remove Explanation gets to its revert, which puts the stored
\* solution back, clears storedExplanation and sets hasExplanation to false.
C19_ExplanationRemovable ==
    /\ hasExplanationFlag
    /\ AllIdle \/ \E i \in Slots : handlers[i].pc = "menu"
    => CanRevert(doc)

\* the lines editBuilder.insert puts in for the suggestion sg (lines 1671-1682)
InsertedLines(sg) ==
    LET ls == Split(SuggestionText(languageId, sg.content))
    IN  SubSeq(ls, 1, Len(ls) - 1)

\* C20: the summary goes in below the lines the document had when the
\* evaluation was requested; every suggestion Evaluate Code inserts then goes
\* in immediately before the line that has its number in the lines read at the
\* start of the pass, that line is still at that number in the document when
\* the suggestion is inserted, and every suggestion still pending has a lower
\* number.
C20_DescendingInsertion ==
    [][\A i \in Slots :
          /\ EvaluateCalled(i) /\ handlers'[i].pc = "ev_edit" =>
                \A n \in 1..Len(Split(doc)) :
                   Split(handlers'[i].res)[n] = Split(doc)[n]
          /\ (EvaluateContext(i) \/ EvaluateSuggested(i)) /\ handlers'[i].pc = "ev_sug" =>
                LET before == IF handlers[i].pc = "ev_ctx"
                              THEN ParseSuggestions(handlers[i].loc)
                              ELSE handlers[i].loc[1]
                    pending == handlers'[i].loc[1]
                    lines == handlers'[i].loc[2]
                    sg == before[Len(before) - Len(pending)]
                    n == sg.lineNumber
                    now == Split(doc')
                IN  /\ handlers[i].pc = "ev_ctx" => lines = now
                    /\ n \in 1..Len(lines)
                    /\ n <= Len(now)
                    /\ now[n] = lines[n]
                    /\ Split(handlers'[i].res) =
                          SubSeq(now, 1, n - 1) \o InsertedLines(sg)
                          \o SubSeq(now, n, Len(now))
                    /\ \A k \in 1..Len(pending) : pending[k].lineNumber < n]_vars

\* C20 (witness): the suggestion for line 2 is in the document and the one for
\* line 1, the last of the pass, is being inserted.
C20_LowerAfterHigher ==
    \E i \in Slots :
       /\ At(i, "evaluateSolution", "ev_sug")
       /\ handlers[i].loc[1] = <<>>
       /\ Includes(doc, <<"g2">>) /\ ~Includes(doc, <<"g1">>)
       /\ Includes(handlers[i].res, <<"g1">>)

(***************************************************************************)
(* Properties of the evaluation and of the resync, checked under SpecSolo  *)
(***************************************************************************)
\* C21 (as claimed): when the answer of the evaluation service arrives and the
\* document holds an Evaluation block already, Evaluate Code issues no
\* insertion and ends.
C21_OneEvaluationBlock ==
    [][\A i \in Slots :
          EvaluateCalled(i) /\ Includes(doc, <<CommentPrefix(languageId), "Evaluation:">>) =>
             handlers'[i].pc # "ev_edit"]_vars

\* Start Practice runs the resync pass and the picker (lines 1292-1331): it was
\* invoked with an editor and found a question, or it has just set hasQuestion
\* for the learner's own question
Resyncs(i) ==
    \/ DetectQuestionInFile /\ BeginStart(i, TRUE)
    \/ UserQuestionContext(i) /\ handlers[i].loc[1] > Len(ResetKeys)

\* the actions the picker of slot i lists after the step
ListedNext(i) ==
    IF handlers'[i].pc = "menu"
    THEN {handlers'[i].loc[k] : k \in 1..Len(handlers'[i].loc)}
    ELSE {}

\* C22: when hintVisible is true and the hint marker is no longer in the
\* document, the resync pass of the next Start Practice sets hintVisible to
\* false, and if the question is still there and the solution is not visible
\* the picker lists Show Hint and not Hide Hint.
C22_DeletedHintResynced ==
    [][\A i \in Slots :
          Resyncs(i) /\ hintVisibleFlag /\ ~Includes(doc, <<"Hint:">>) =>
             /\ ~hintVisibleFlag'
             /\ hasQuestionFlag' /\ ~solutionVisibleFlag' =>
                   "Show Hint" \in ListedNext(i) /\ "Hide Hint" \notin ListedNext(i)]_vars

\* C22 (witness): the learner has deleted the hint block that Show Hint put in,
\* and the picker of the next Start Practice lists Show Hint.
C22_ShowHintAfterDeletion ==
    /\ \E i \in Slots :
          /\ handlers[i].pc = "menu"
          /\ \E k \in 1..Len(handlers[i].loc) : handlers[i].loc[k] = "Show Hint"
    /\ hintsUsed = 1
    /\ ctx["hintVisible"] /\ ~hintVisibleFlag
    /\ ~Includes(doc, <<"Hint:">>)
    /\ hasQuestionFlag /\ ~solutionVisibleFlag
    /\ nHuman = 1

\* lines 975-978: the document holds the marker of a generated question, or text
\* while the question is the learner's own
QuestionPresent(d) ==
    Includes(d, <<"Question (">>) \/ (isUserWrittenQuestion /\ Len(Trim(d)) > 0)

\* C23: a resync pass that runs while hasQuestion is true sets hasQuestion,
\* hintVisible, solutionVisible, hasExplanation and evaluationVisible to false
\* and shows no picker when the document holds neither the question marker nor
\* text of a user-written question, and leaves hasQuestion true when it holds
\* either.
C23_ResyncReset ==
    [][\A i \in Slots :
          Resyncs(i) /\ (hasQuestionFlag \/ handlers[i].pc = "uq_ctx") =>
             IF QuestionPresent(doc) THEN hasQuestionFlag'
             ELSE /\ ~hasQuestionFlag' /\ ~hintVisibleFlag' /\ ~solutionVisibleFlag'
                  /\ ~hasExplanationFlag' /\ ~evaluationVisibleFlag'
                  /\ handlers'[i].cmd = "idle"]_vars

\* C23 (witness): the learner has replaced the whole text of a question whose
\* hint and solution were shown, and the resync pass has reset the session.
C23_ResetAfterWipe ==
    /\ AllIdle
    /\ doc = <<"y">>
    /\ ~hasQuestionFlag /\ ~hintVisibleFlag /\ ~solutionVisibleFlag
    /\ ctx["hasQuestion"] /\ ctx["hintVisible"] /\ ctx["solutionVisible"]
    /\ nCommands.start = 2

\* C24 (as claimed): whenever no command is in progress and the session is in
\* the pre-question state, no hint, no solution and no explanation is stored.
C24_NothingStoredWithoutQuestion ==
    AllIdle /\ ~hasQuestionFlag =>
       storedHint = Null /\ storedSolution = Null /\ storedExplanation = Null

\* C25 (as claimed): whenever no command is in progress and the listener has
\* finished, each of the five in-memory flags equals its context key.
C25_FlagsAgreeWithContext ==
    AllIdle => \A k \in ContextKeys : ctx[k] = Flags[k]

(***************************************************************************)
(* Properties of the selection state and of the marker blocks, checked     *)
(* under SpecSolo                                                          *)
(***************************************************************************)
\* C26: in every state the selection-explanation flag is true exactly when
\* there are explained blocks, and exactly when there is a snapshot.
C26_SelectionStateTogether ==
    /\ hasSelectionExplanationFlag <=> selectionExplainedBlocks # <<>>
    /\ hasSelectionExplanationFlag <=> Truthy(selectionFileSnapshot)

\* C26 (witness): the learner has explained two selections and no command is in
\* progress: flag, blocks and snapshot are populated.
C26_TwoBlocksKept ==
    /\ AllIdle
    /\ hasSelectionExplanationFlag
    /\ Len(selectionExplainedBlocks) = 2
    /\ Truthy(selectionFileSnapshot)
    /\ \A k \in 1..2 : Includes(doc, selectionExplainedBlocks[k])

\* C27: Hide Hint, Remove Hint and Remove Evaluation get past their check only on
\* a document that has a line starting with the prefixed marker: a step in which
\* one of them starts its edit is taken with the marker line present, and no
\* edit of theirs is in progress on a document without it.  Without the marker
\* line the handler returns at once, a step that changes no variable.
RemovalCommands(marker) ==
    IF marker = "Hint:" THEN {"hideHint", "removeHint"} ELSE {"removeEvaluation"}

C27_MissingMarkerNoOp ==
    /\ [](\A i \in Slots, marker \in {"Hint:", "Evaluation:"} :
             /\ handlers[i].cmd \in RemovalCommands(marker)
             /\ handlers[i].pc = "edit"
             /\ ~handlers[i].stale
             => HasBlock(doc, languageId, marker))
    /\ [][\A i \in Slots, marker \in {"Hint:", "Evaluation:"} :
             \A cmd \in RemovalCommands(marker) :
                handlers[i].cmd # cmd /\ handlers'[i].cmd = cmd =>
                   /\ HasBlock(doc, languageId, marker)
                   /\ handlers'[i].res = RemoveBlock(doc, languageId, marker)]_vars

\* C27 (witness): the hint was shown and the learner deleted its block; the flag
\* still says the hint is visible, no command is in progress and the budget of
\* commands allows Hide Hint, Remove Hint and Remove Evaluation.
C27_HideHintWithoutBlock ==
    /\ AllIdle
    /\ nCommands.other < MaxCommands
    /\ hintsUsed = 1
    /\ hintVisibleFlag
    /\ ctx["hintVisible"]
    /\ ~HasBlock(doc, languageId, "Hint:")
    /\ ~HasBlock(doc, languageId, "Evaluation:")

(***************************************************************************)
(* Properties of Run, checked under Spec                                   *)
(***************************************************************************)
\* C28: no step of a Run that fails touches the Tracker or timerStarted: the
\* handler's start, the save, a rejected save and the return with a failure
\* leave the seconds, the running state, the interval and timerStarted as they
\* were; the return with success stops a started Tracker and clears
\* timerStarted.
C28_FailedRunKeepsTracker ==
    [][\A i \in Slots :
          /\ BeginRun(i) \/ RunSaves(i) \/ RunThrows(i) \/ RunResolved(i, "fail") =>
                UNCHANGED <<practiceTimer, liveIntervals, timerStarted>>
          /\ RunResolved(i, "ok") /\ timerStarted =>
                /\ ~practiceTimer'.isRunning
                /\ practiceTimer'.seconds = 0
                /\ ~timerStarted']_vars

\* C28 (witness): the Tracker runs and has counted a second, Run has saved the
\* file and is about to learn that the launch failed.
C28_RunFailingWhileTimed ==
    \E i \in Slots :
       /\ At(i, "run", "run_saved")
       /\ timerStarted
       /\ practiceTimer.isRunning
       /\ practiceTimer.seconds > 0
       /\ ENABLED RunResolved(i, "fail")

\* C29: after a resync pass that keeps the question, hintVisible is true exactly
\* when the hint marker is in the document: a hint block the learner deleted and
\* restored by undo makes the pass set the flag again.
C29_ResyncBothDirections ==
    [][\A i \in Slots :
          Resyncs(i) /\ hasQuestionFlag' =>
             (hintVisibleFlag' <=> Includes(doc, <<"Hint:">>))]_vars

(***************************************************************************)
(* The removal of a marker block alone: Hide Hint, Remove Hint and Remove  *)
(* Evaluation on every document of up to MaxBlockLines lines               *)
(***************************************************************************)
MaxBlockLines == 4

\* the lines the documents are made of: the marker lines, plain and indented, a
\* comment, a bare comment prefix, a blank line, a line of white space, code
BlockLineKinds ==
    {<<"// ", "Hint:">>, <<" ", "// ", "Hint:">>, <<"// ", "Evaluation:">>,
     <<"// ", "h1">>, <<"// ">>, <<>>, <<" ">>, <<"x">>}

BlockDocs ==
    {Join(ls) : ls \in UNION {[1..n -> BlockLineKinds] : n \in 1..MaxBlockLines}}

InitBlocks ==
    /\ practiceTimer = [interval |-> NoInterval, seconds |-> 0, isRunning |-> FALSE]
    /\ liveIntervals = {}
    /\ statusText = StatusOf(ZeroTime)
    /\ finalTime = Null
    /\ doc \in BlockDocs
    /\ languageId \in Languages
    /\ storedHint = Null
    /\ storedSolution = Null
    /\ storedExplanation = Null
    /\ isUserWrittenQuestion = FALSE
    /\ selectionFileSnapshot = Null
    /\ selectionExplainedBlocks = <<>>
    /\ hasSelectionExplanationFlag = FALSE
    /\ hasQuestionFlag = FALSE
    /\ solutionVisibleFlag = FALSE
    /\ hasExplanationFlag = FALSE
    /\ hintVisibleFlag = FALSE
    /\ evaluationVisibleFlag = FALSE
    /\ ctx = [k \in ContextKeys |-> FALSE]
    /\ timerStarted = FALSE
    /\ isExtensionEditing = FALSE
    /\ hintsUsed = 0
    /\ solutionViewed = FALSE
    /\ handlers = [i \in Slots |-> Idle]
    /\ tasks = <<>>
    /\ nCommands = [start |-> 0, other |-> 0, overlap |-> 0]
    /\ nHuman = 0

NextBlocks ==
    \/ AllIdle /\ InvokeHideHint
    \/ AllIdle /\ InvokeRemoveHint
    \/ AllIdle /\ InvokeRemoveEvaluation
    \/ \E i \in Slots : RemoveBlockEdited(i) \/ ContextUpdated(i)

SpecBlocks == InitBlocks /\ [][NextBlocks]_vars

(***************************************************************************)
(* Properties of the removal of a marker block, checked under SpecBlocks   *)
(***************************************************************************)
IsBlank(l) == LineTrim(l) = <<>>

IsComment(l, lang) == StartsWithTok(LineTrim(l), CommentChar(lang))

\* the range a..b of the lines ls is the block of the marker
IsBlockRange(ls, a, b, lang, marker) ==
    /\ StartsWithMarker(ls[a], lang, marker)
    /\ \A k \in 1..(a - 1) : ~StartsWithMarker(ls[k], lang, marker)
    /\ \A k \in (a + 1)..b : IsBlank(ls[k]) \/ IsComment(ls[k], lang)
    /\ \A k \in (a + 1)..(b - 1) : ~IsBlank(ls[k])
    /\ \/ b > a /\ IsBlank(ls[b])
       \/ b = Len(ls)
       \/ ~IsBlank(ls[b + 1]) /\ ~IsComment(ls[b + 1], lang)

\* C30: the text a removal writes is the document without one range of lines
\* a..b: a is the first line whose trimmed text starts with the prefixed
\* marker, the lines after a up to b are blank or comments, b is the first
\* blank line after a or the line before the first line that is neither blank
\* nor a comment, or the last line; the lines before a and after b are kept as
\* they are and in their order, and the edit that completes writes that text.
C30_OneContiguousRange ==
    [][\A i \in Slots, marker \in {"Hint:", "Evaluation:"} :
          \A cmd \in RemovalCommands(marker) :
             /\ handlers[i].cmd # cmd /\ handlers'[i].cmd = cmd =>
                   LET ls == Split(doc)
                   IN  \E a \in 1..Len(ls), b \in 1..Len(ls) :
                          /\ a <= b
                          /\ IsBlockRange(ls, a, b, languageId, marker)
                          /\ handlers'[i].res =
                                Join(SubSeq(ls, 1, a - 1) \o SubSeq(ls, b + 1, Len(ls)))
             /\ handlers[i].cmd = cmd /\ handlers[i].pc = "edit" /\ handlers'[i].pc # "edit" =>
                   doc' = handlers[i].res]_vars

\* C30 (witness): Hide Hint has built its edit for a document whose hint block
\* sits between two lines of code: the block ends before the second line of
\* code, and both lines of code are kept.
C30_BlockBetweenCode ==
    \E i \in Slots :
       /\ At(i, "hideHint", "edit")
       /\ doc = Join(<<<<"x">>, <<"// ", "Hint:">>, <<"// ", "h1">>, <<"x">>>>)
       /\ handlers[i].res = Join(<<<<"x">>, <<"x">>>>)

(***************************************************************************)
(* Properties of the change listener, checked under SpecSolo               *)
(***************************************************************************)
\* C31: a human change event that the guard lets through, with an explanation
\* stored, leaves hasExplanation equal to the presence of the stored explanation
\* in the new text within the step of the event itself.
C31_ExplanationResyncedAtOnce ==
    [][nHuman' = nHuman + 1 /\ ~GuardBlocks /\ Truthy(storedExplanation) =>
          hasExplanationFlag' = Includes(doc', storedExplanation)]_vars

(***************************************************************************)
(* Properties of the question detection, checked under Spec                *)
(***************************************************************************)
\* C32: a human typing event that the listener processes while no question flag
\* is set and timerStarted is false, and whose new text matches the patterns of
\* detectManualQuestion, sets hasQuestion and starts the Tracker in the same
\* step: the timer check of the event reads the flag the event has just set.
C32_DetectsAndStarts ==
    [][nHuman' = nHuman + 1 =>
          \A e \in HumanEdits(doc, languageId) :
             /\ HumanEditOf(e)
             /\ ~GuardBlocks
             /\ ~hasQuestionFlag
             /\ ~timerStarted
             /\ ~Truthy(storedExplanation)
             /\ UserTyped(e.changes)
             /\ DetectManualQuestion(e.doc)
             => /\ hasQuestionFlag'
                /\ timerStarted'
                /\ practiceTimer'.isRunning
                /\ practiceTimer'.interval \in liveIntervals']_vars

\* C32 (witness): the learner's first and only event typed a phrase of the
\* patterns into a file without a question: the flag is set, the Tracker runs,
\* and the context key of the flag is still to be written.
C32_TypedQuestionTimed ==
    /\ nHuman = 1
    /\ nCommands.start = 0
    /\ nCommands.other = 0
    /\ doc = <<CommentPrefix(languageId), "write a function", NL>>
    /\ hasQuestionFlag
    /\ ~ctx["hasQuestion"]
    /\ timerStarted
    /\ practiceTimer.isRunning
    /\ practiceTimer.seconds = 0

\* C33: a resync pass on a document that has no generated header but still holds
\* the phrase the listener detected the question from keeps hasQuestion, and
\* Start Practice shows the action menu.
C33_DetectedQuestionKept ==
    [][\A i \in Slots :
          /\ Resyncs(i)
          /\ hasQuestionFlag
          /\ ~Includes(doc, <<"Question (">>)
          /\ DetectManualQuestion(doc)
          => hasQuestionFlag' /\ handlers'[i].pc = "menu"]_vars

(***************************************************************************)
(* Properties of the flags after a resync, checked under SpecSolo          *)
(***************************************************************************)
\* C34: with no human edit so far, a resync pass after a successful Evaluate
\* Code (evaluationVisible true, the evaluation block in the document) leaves
\* evaluationVisible true, and the list shown next offers Remove Evaluation and
\* not Evaluate Code.
C34_EvaluationSurvivesResync ==
    [][\A i \in Slots :
          /\ Resyncs(i)
          /\ nHuman = 0
          /\ evaluationVisibleFlag
          /\ HasBlock(doc, languageId, "Evaluation:")
          => /\ evaluationVisibleFlag'
             /\ "Remove Evaluation" \in ListedNext(i)
             /\ "Evaluate Code" \notin ListedNext(i)]_vars

(***************************************************************************)
(* Properties of timerStarted, checked under Spec                          *)
(***************************************************************************)
\* C35: in every state timerStarted is true when the Tracker is running.
C35_RunningImpliesStarted == practiceTimer.isRunning => timerStarted

(***************************************************************************)
(* Properties of the explanation flag, checked under SpecSolo              *)
(***************************************************************************)
\* C36: whenever no handler and no listener is in progress, hasExplanation
\* implies solutionVisible, and a list built from the flags never holds Remove
\* Explanation together with Show Hint or Show Solution.
C36_ExplanationNeedsSolution ==
    AllIdle =>
       /\ hasExplanationFlag => solutionVisibleFlag
       /\ LET acts == BuildAvailableActions(Flags)
              listed == {acts[k] : k \in 1..Len(acts)}
          IN  "Remove Explanation" \in listed =>
                 "Show Hint" \notin listed /\ "Show Solution" \notin listed

\* C37: whenever no handler and no listener is in progress, hasExplanation
\* implies a stored explanation that is not empty, the condition under which
\* Remove Explanation does not answer that there is nothing to remove.
C37_ExplanationStored ==
    AllIdle /\ hasExplanationFlag => Truthy(storedExplanation)

(***************************************************************************)
(* Overlapping Start Practice: a second invocation while the picker of the *)
(* first is open or a command picked from it is in progress                *)
(***************************************************************************)
MaxOverlapStarts == 2

NextOverlap ==
    \/ StartInvoked(MaxOverlapStarts)
    \/ InvokeRun
    \/ HumanEdit
    \/ \E i \in Slots :
          \/ StartSteps(i)
          \/ MenuPicked(i, {"Show Hint"})
          \/ ShowHintEdited(i)
          \/ ContextUpdated(i)
          \/ RunSaves(i)
          \/ RunReturned(i)
          \/ RunThrows(i)
    \/ TaskResumes

SpecOverlap == Init /\ [][NextOverlap]_vars

(***************************************************************************)
(* Properties of the picker of Start Practice, checked under SpecOverlap   *)
(***************************************************************************)
\* the step ends the loop of the picker of slot i with `No actions available`:
\* a command picked from the list returns and the list built next is empty
NoActionsAvailable(i) ==
    /\ handlers[i].menu
    /\ handlers[i].cmd # "idle"
    /\ handlers'[i].cmd = "idle"
    /\ MenuActions(Flags', hasSelectionExplanationFlag', FALSE) = <<>>

C39_HeaderLeadsToMenu ==
    [][\A i \in Slots :
          BeginStart(i, TRUE) /\ Includes(doc, <<"Question (">>) =>
             handlers'[i].pc = "menu"]_vars

(***************************************************************************)
(* Properties of overlapping Show Hint and Show Solution, checked under    *)
(* Spec                                                                    *)
(***************************************************************************)
\* the copies of the stored solution's first token in the text
SolutionCount(d) ==
    IF ~Truthy(storedSolution) THEN 0
    ELSE Cardinality({k \in 1..Len(d) : d[k] = storedSolution[1]})

\* C40: with no human edit, when Show Hint or Show Solution is invoked on the
\* document of the question while the edit of another Show Hint or Show
\* Solution is in flight, the document holds at most one hint block and one
\* copy of the solution, and Show Hint counts a hint exactly when its edit has
\* put a hint block into the document.
OnlyShowsInProgress ==
    \A j \in Slots : handlers[j].cmd \in {"idle", "showHint", "showSolution"}

C40_OverlapCountsInsertedHints ==
    [][nHuman = 0 /\ OnlyShowsInProgress =>
          /\ HintCount(doc') <= 1
          /\ SolutionCount(doc') <= 1
          /\ \A i \in Slots :
                ShowHintEdited(i) /\ Includes(handlers[i].res, <<"Question (">>) =>
                   hintsUsed' - hintsUsed = HintCount(doc') - HintCount(doc)]_vars
====
